---------------------------- MODULE Spec2Model ----------------------------
(***************************************************************************)
(* The CSV bulk booking command line tool of kadence-booking-cli/index.js  *)
(* (the current variant, lines 359-815): run(), its pool of workers, the   *)
(* per-row pipeline processRow, the authenticated client of                *)
(* createAxiosClient and the failure log of appendFailureLog.              *)
(*                                                                         *)
(* JavaScript runs one callback at a time, so a worker only yields at an   *)
(* await.  Every action below is one such uninterrupted stretch of code:   *)
(* from the resumption of an await to the next await that waits for I/O.   *)
(***************************************************************************)
EXTENDS Integers, Sequences, FiniteSets, TLC

VARIABLES
    \* the invocation: command line, environment, input file (fixed by Init)
    dryRun,             \* opts.dryRun
    requested,          \* opts.concurrency after parseInt: [nan, n]
    staticToken,        \* KADENCE_API_TOKEN is set
    keyPair,            \* KADENCE_API_KEY_IDENTIFIER and _SECRET are set
    inputFile,          \* the file of --file: "rows", "missing", "unreadable"
    rows,               \* readCsv's result
    logFileAtStart,     \* the failure log as the run found it
    \* run()
    runPc,              \* "start", "running", "done"
    exitCode,
    summary,            \* the counts of the final line, once printed
    index,              \* the shared cursor
    results,
    logInitialized,
    logFile,            \* [exists, lines]
    \* createAxiosClient's closure
    cachedToken,
    tokenExpiresAtMs,
    now,                \* Date.now()
    ticks,              \* how often the clock has advanced
    tokenResp,          \* resp.data of the last token exchange that succeeded
    \* each worker: where it awaits
    pc,                 \* the request awaited, "validate" or "exit"
    phase,              \* "token", "http", "noauth", "threw" or "-"
    rowIdx,
    tokenNow,           \* getToken's local now
    bearer,             \* the Authorization of the request in flight
    heard,              \* how the request before the awaited one, of the
                        \* same row, was settled: "found", "no match",
                        \* "error", "token failed", "no credentials"; "-"
                        \* for the first request of a row
    \* history, read by the properties only
    started,            \* per row: how often processRow was called for it
    posts,              \* per row: POST /bookings requests sent
    accepted,           \* per row: POST /bookings requests that succeeded
    sent,               \* per row: what went on the wire for it
    attempts,           \* per row: the bodies createBooking tried, in order
    inputs,             \* per outcome: the row its worker processed
    headerWrites,       \* header lines this run wrote to the log
    logWriteFailed,     \* a write to the log raised
    faults,             \* environment faults injected so far
    \* one call of a function of the row pipeline, on its own
    call,               \* the function and its arguments
    ret                 \* what it returned, once it has

cfgVars == <<dryRun, requested, staticToken, keyPair, inputFile, rows,
             logFileAtStart>>
runVars == <<runPc, exitCode, summary>>
poolVars == <<index, results, inputs, started>>
logVars == <<logInitialized, logFile, headerWrites, logWriteFailed>>
tokenVars == <<cachedToken, tokenExpiresAtMs, now, ticks, tokenResp>>
workerVars == <<pc, phase, rowIdx, tokenNow, bearer, heard>>
pureVars == <<call, ret>>
runState == <<cfgVars, runVars, poolVars, logVars, tokenVars, workerVars,
              posts, accepted, sent, attempts, faults>>
vars == <<runState, pureVars>>

----------------------------------------------------------------------------
(* Bounds of the model *)

MaxRows == 2
MaxConcurrency == 2
MaxFaults == 2
MaxTicks == 2
MaxLen == 2

----------------------------------------------------------------------------
(* Values *)

Digits == {"0", "1", "2", "3", "4", "5", "6", "7", "8", "9"}

\* an error: its message, the await it was raised at, and the value the
\* message quotes (`got: ${dateInput}`, line 652)
\* parent and cause: what the message of a listing error embeds, `for
\* building ${buildingId}: ${e.message}` (lines 504 and 525)
NoError == [msg |-> "", at |-> "", got |-> <<>>, parent |-> "", cause |-> ""]
Err(m, a) == [msg |-> m, at |-> a, got |-> <<>>, parent |-> "", cause |-> ""]

\* `${id}` of an id: the text of undefined when there is none
IdText(id) == IF id = "" THEN "undefined" ELSE id

\* a bearer token: what it is and when it was issued
NoToken == [value |-> "", iat |-> 0]
StaticToken == [value |-> "KADENCE_API_TOKEN", iat |-> 0]
AccessToken(issuedAt) == [value |-> "access_token", iat |-> issuedAt]

\* '09:00' and '17:00'
DefaultStart == <<"0", "9", ":", "0", "0">>
DefaultEnd == <<"1", "7", ":", "0", "0">>

\* A CSV record.  An absent column and an empty one are both "" (or <<>>
\* for the columns kept as characters): the code only tests them with !x.
RowValid ==
    [email |-> "ann@corp.io", building |-> "HQ", floor |-> "1",
     space |-> "D1", type |-> "desk",
     date |-> <<"2", "0", "2", "5", "-", "0", "8", "-", "1", "5">>,
     start |-> <<"1", "0", ":", "0", "0">>, end |-> <<>>]
RowMissing ==
    [email |-> "", building |-> "HQ", floor |-> "2",
     space |-> "D2", type |-> "desk",
     date |-> <<"2", "0", "2", "5", "-", "0", "8", "-", "1", "6">>,
     start |-> <<>>, end |-> <<"1", "6", ":", "3", "0">>]
RowBadDate ==
    [email |-> "bob@corp.io", building |-> "HQ", floor |-> "3",
     space |-> "D3", type |-> "desk",
     date |-> <<"2", "0", "2", "5", "-", "8", "-", "1">>,
     start |-> <<>>, end |-> <<>>]
\* a quoted CSV field keeps its blanks: ' 2025-08-15 '
RowPaddedDate ==
    [RowValid EXCEPT !.date = <<" ">> \o RowValid.date \o <<" ">>]
\* a Date of blanks only
RowBlankDate == [RowValid EXCEPT !.date = <<" ", " ">>]
RowNoType == [RowValid EXCEPT !.type = ""]
\* RowValid with one more column empty
RowsLackingOne ==
    {[RowValid EXCEPT !.building = ""], [RowValid EXCEPT !.floor = ""],
     [RowValid EXCEPT !.space = ""], [RowValid EXCEPT !.date = <<>>]}
RowPool == {RowValid, RowMissing}

\* files of one row, each a case of the validation
SingleRowFiles ==
    {<<r>> : r \in {RowBadDate, RowPaddedDate, RowBlankDate, RowNoType}
                     \cup RowsLackingOne}

\* the input files: up to MaxRows rows of the pool, and the files of one row
RowLists == UNION {[1..n -> RowPool] : n \in 0..MaxRows} \cup SingleRowFiles

\* the file named by --file: one readCsv reads, one that does not exist
\* (line 720), one whose reading fails (readCsv rejects, line 481)
InputFiles == {"rows", "missing", "unreadable"}

\* no summary line was printed
NoSummary == [printed |-> FALSE, success |-> 0, failed |-> 0]

\* opts.concurrency: parseInt's result, NaN for a non-numeric argument
NaN == [nan |-> TRUE, n |-> 0]
Num(k) == [nan |-> FALSE, n |-> k]
RequestedValues == {NaN} \cup {Num(k) : k \in -1..MaxConcurrency}

----------------------------------------------------------------------------
(* The failure log file: lines of text, each known by what it is *)

HeaderLine == [kind |-> "header", row |-> 0, cols |-> <<>>, error |-> NoError]
\* a first line that starts with 'Row,Email Address' and is not the header
LegacyLine == [kind |-> "legacy", row |-> 0, cols |-> <<>>, error |-> NoError]
\* a line some other program wrote
ForeignLine == [kind |-> "foreign", row |-> 0, cols |-> <<>>, error |-> NoError]
\* a data line of an earlier run
OldLine == [kind |-> "data", row |-> 9, cols |-> <<>>, error |-> Err("old", "")]

AbsentFile == [exists |-> FALSE, lines |-> <<>>]
File(ls) == [exists |-> TRUE, lines |-> ls]
InitialLogFiles ==
    {AbsentFile, File(<<HeaderLine, OldLine>>), File(<<LegacyLine>>),
     File(<<ForeignLine>>)}

\* faulty variant: a prefix test that never matches
StartsWithNothing(ls) == FALSE

\* existing.startsWith('Row,Email Address')
StartsWithRowEmail(ls) ==
    Len(ls) > 0 /\ ls[1].kind \in {"header", "legacy"}

\* faulty variant: the empty value is logged as it is
OrDefaultKeepsEmpty(v, d) == v

\* row['Start Time'] || '09:00'
OrDefault(v, d) == IF v = <<>> THEN d ELSE v

LogLine(rowIndex, row, errorMessage) ==
    [kind |-> "data", row |-> rowIndex,
     cols |-> <<row.email, row.building, row.floor, row.space, row.type,
                row.date, OrDefault(row.start, DefaultStart),
                OrDefault(row.end, DefaultEnd)>>,
     error |-> errorMessage]

IoOutcomes == {"ok", "init throws", "append throws"}

\* What one call leaves behind: the file, logInitialized, whether it wrote
\* the header and whether a write raised (the catch of line 762).
appendFailureLog(rowIndex, row, errorMessage, io) ==
    LET needHeader == /\ ~logInitialized
                      /\ \/ ~logFile.exists
                         \/ ~StartsWithRowEmail(logFile.lines)
        initialized == IF needHeader
                       THEN File(<<HeaderLine>> \o logFile.lines)
                       ELSE logFile
    IN  IF io = "init throws"
        THEN [file |-> logFile, init |-> logInitialized, header |-> FALSE,
              raised |-> TRUE]
        ELSE IF io = "append throws"
        THEN [file |-> initialized, init |-> TRUE, header |-> needHeader,
              raised |-> TRUE]
        ELSE [file |-> File(Append(initialized.lines,
                                   LogLine(rowIndex, row, errorMessage))),
              init |-> TRUE, header |-> needHeader, raised |-> FALSE]


----------------------------------------------------------------------------
(* processRow: validation (lines 638-653) *)

\* faulty variant: the email address is not asked for
MissingRequiredButEmail(row) ==
    \/ row.building = ""
    \/ row.floor = ""
    \/ row.space = ""
    \/ row.type = ""
    \/ row.date = <<>>

\* !email || !buildingName || !floorName || !spaceName || !spaceType || !dateInput
MissingRequired(row) ==
    \/ row.email = ""
    \/ row.building = ""
    \/ row.floor = ""
    \/ row.space = ""
    \/ row.type = ""
    \/ row.date = <<>>

\* faulty variant: /^\d{4}-\d{1,2}-\d{1,2}$/
IsIsoDateLoose(s) ==
    /\ Len(s) \in 8..10
    /\ \A i \in 1..4 : s[i] \in Digits
    /\ s[5] = "-"
    /\ \E j \in 7..8 :
         /\ s[j] = "-"
         /\ \A i \in (6..Len(s)) \ {j} : s[i] \in Digits

\* /^\d{4}-\d{2}-\d{2}$/
IsIsoDate(s) ==
    /\ Len(s) = 10
    /\ \A i \in {1, 2, 3, 4, 6, 7, 9, 10} : s[i] \in Digits
    /\ s[5] = "-"
    /\ s[8] = "-"

\* String.prototype.trim
RECURSIVE TrimStart(_)
TrimStart(s) == IF s # <<>> /\ Head(s) = " " THEN TrimStart(Tail(s)) ELSE s
RECURSIVE TrimEnd(_)
TrimEnd(s) ==
    IF s # <<>> /\ s[Len(s)] = " " THEN TrimEnd(SubSeq(s, 1, Len(s) - 1)) ELSE s
Trim(s) == TrimEnd(TrimStart(s))

\* the error the synchronous head of processRow throws, NoError if none
ValidationError(row) ==
    IF MissingRequired(row)
    THEN Err("CSV row missing required columns", "validate")
    ELSE IF ~IsIsoDate(Trim(row.date))
    THEN [Err("Invalid date format for row. Expected YYYY-MM-DD, got: ",
              "validate") EXCEPT !.got = row.date]
    ELSE NoError

----------------------------------------------------------------------------
(* createAxiosClient: getToken and the request interceptor *)

RefreshMarginMs == 30000
DefaultExpiresIn == 3600

\* expires_in of a token response; 0 stands for a response without it
ExpiresInValues == {0, 30}

\* resp.data of a token exchange (line 406)
NoResponse == [access_token |-> NoToken, expires_in |-> 0]
TokenResponses(issuedAt) ==
    {[access_token |-> AccessToken(issuedAt), expires_in |-> e] :
        e \in ExpiresInValues}

\* Number(expires_in || 3600) * 1000
ExpiresMs(expiresIn) ==
    (IF expiresIn = 0 THEN DefaultExpiresIn ELSE expiresIn) * 1000

\* now + Number(expires_in || 3600) * 1000, with getToken's own now
ExpiresAt(callStart, arrival, expiresIn) == callStart + ExpiresMs(expiresIn)

\* a token that is due for refresh the moment it is issued: a fault of the
\* environment, like a failed request
ShortLived(expiresIn) ==
    IF ExpiresMs(expiresIn) <= RefreshMarginMs THEN 1 ELSE 0

\* faulty variant: the token is used up to its expiry
CachedTokenValidToExpiry ==
    cachedToken # NoToken /\ now < tokenExpiresAtMs

\* cachedToken && now < tokenExpiresAtMs - 30000
CachedTokenValid ==
    cachedToken # NoToken /\ now < tokenExpiresAtMs - RefreshMarginMs

\* faulty variant: the key pair is looked at before the static token
GetTokenSyncKeysFirst ==
    IF keyPair THEN (IF CachedTokenValid THEN "http" ELSE "token")
    ELSE IF staticToken THEN "http"
    ELSE "noauth"

\* getToken up to its first await: where a request that is being made waits.
\* "http": a token is at hand and the request is sent; "token": the token
\* exchange was sent first; "noauth": getToken threw, nothing is sent.
GetTokenSync ==
    IF staticToken THEN "http"
    ELSE IF ~keyPair THEN "noauth"
    ELSE IF CachedTokenValid THEN "http"
    ELSE "token"

\* what getToken returned without waiting (lines 391 and 397), and so the
\* Authorization of the request that is sent at once (line 417)
Bearer(ph) ==
    IF ph # "http" THEN NoToken
    ELSE IF staticToken THEN StaticToken
    ELSE cachedToken

\* what a request that waits in phase ph has put on the wire
Wire(ph) ==
    IF ph = "http" THEN {"api"}
    ELSE IF ph = "token" THEN {"token"}
    ELSE {}

----------------------------------------------------------------------------
(* processRow: the requests of one row and what follows each *)

UserRequests == {"users_q", "users_all"}
FloorRequests == {"floors_q", "floors_path"}
SpaceRequests == {"spaces_q", "spaces_path"}
PostRequests == {"post_primary", "post_secondary"}
\* the requests whose response is a collection that is searched by name
ListRequests ==
    UserRequests \cup {"buildings"} \cup FloorRequests \cup SpaceRequests
Requests == ListRequests \cup {"building_detail"} \cup PostRequests

\* what a step of a row leads to
Req(r) ==
    [kind |-> "request", req |-> r, status |-> "", error |-> NoError, id |-> <<>>]
Succeed(s) ==
    [kind |-> "success", req |-> "", status |-> s, error |-> NoError, id |-> <<>>]
Fail(e) ==
    [kind |-> "failure", req |-> "", status |-> "", error |-> e, id |-> <<>>]

\* faulty variant: the references are tried first
bodyCandidatesSwapped == <<"user/space", "userId/spaceId">>

\* the two bodies of createBooking, in the order they are tried: the flat
\* userId/spaceId and the user/space references (lines 609-622)
bodyCandidates == <<"userId/spaceId", "user/space">>
Body(p) == bodyCandidates[IF p = "post_primary" THEN 1 ELSE 2]

\* resp.data of an accepted POST /bookings: the booking made from the body
CreatedBooking(p) == [id |-> <<"booking", Body(p)>>]

\* lines 683-692: createBooking returned, the row is reported created
Created(booking) == [Succeed("created") EXCEPT !.id = booking.id]

\* a building record as GET /buildings returns it: its id and the four
\* fields a time zone is looked for in
Building(id, timezone, timeZone, tz, time_zone) ==
    [id |-> id, timezone |-> timezone, timeZone |-> timeZone, tz |-> tz,
     time_zone |-> time_zone]

BuildingRecords ==
    {Building("b1", "Europe/London", "", "", ""),
     Building("b1", "", "", "", "Europe/Paris"),
     Building("b1", "UTC", "", "", ""),
     Building("b1", "", "", "", ""),
     Building("", "", "", "", "")}

\* a || b for strings: the first that is not empty
Or(a, b) == IF a # "" THEN a ELSE b

\* building.timezone || building.timeZone || building.tz ||
\* building.time_zone || 'UTC'
resolveBuildingTimezone(building) ==
    Or(building.timezone,
       Or(building.timeZone, Or(building.tz, Or(building.time_zone, "UTC"))))

\* faulty variant: options.dryRun is not looked at
AfterTimezoneAlwaysSubmits == Req("post_primary")

\* lines 668 and 683: the dry-run result, or createBooking's first attempt
AfterTimezone ==
    IF dryRun THEN Succeed("dry-run") ELSE Req("post_primary")

\* faulty variant: a building that says 'UTC' is taken at its word
ensureBuildingTimezoneTrustsUtc(building) ==
    IF building.timezone # "" \/ building.timeZone # "" \/ building.tz # ""
       \/ building.time_zone # ""
    THEN AfterTimezone
    ELSE IF building.id = "" THEN AfterTimezone
    ELSE Req("building_detail")

\* lines 570-575: without a zone of its own, a building that has an id is
\* fetched once more
ensureBuildingTimezone(building) ==
    IF resolveBuildingTimezone(building) # "UTC" THEN AfterTimezone
    ELSE IF building.id = "" THEN AfterTimezone
    ELSE Req("building_detail")

\* faulty variant: the floor is not resolved
OnResponseSkipsFloor(p, found, building) ==
    CASE p \in UserRequests ->
           IF found THEN Req("buildings")
           ELSE Fail(Err("User not found by email", p))
      [] p = "buildings" ->
           IF found THEN Req("spaces_q")
           ELSE Fail(Err("Building not found", p))
      [] p \in FloorRequests ->
           IF found THEN Req("spaces_q")
           ELSE Fail(Err("Floor not found", p))
      [] p \in SpaceRequests ->
           IF found THEN ensureBuildingTimezone(building)
           ELSE Fail(Err("Space not found", p))
      [] p = "building_detail" -> AfterTimezone
      [] p \in PostRequests -> Created(CreatedBooking(p))

\* faulty variant: a filtered listing without the name falls back to the
\* listing by path
OnResponseFallsBackOnNoMatch(p, found, building) ==
    CASE p \in UserRequests ->
           IF found THEN Req("buildings")
           ELSE Fail(Err("User not found by email", p))
      [] p = "buildings" ->
           IF found THEN Req("floors_q")
           ELSE Fail(Err("Building not found", p))
      [] p \in FloorRequests ->
           IF found THEN Req("spaces_q")
           ELSE IF p = "floors_q" THEN Req("floors_path")
           ELSE Fail(Err("Floor not found", p))
      [] p \in SpaceRequests ->
           IF found THEN ensureBuildingTimezone(building)
           ELSE IF p = "spaces_q" THEN Req("spaces_path")
           ELSE Fail(Err("Space not found", p))
      [] p = "building_detail" -> AfterTimezone
      [] p \in PostRequests -> Created(CreatedBooking(p))

\* faulty variant: the loop of createBooking goes on after a success
OnResponseKeepsPosting(p, found, building) ==
    CASE p \in UserRequests ->
           IF found THEN Req("buildings")
           ELSE Fail(Err("User not found by email", p))
      [] p = "buildings" ->
           IF found THEN Req("floors_q")
           ELSE Fail(Err("Building not found", p))
      [] p \in FloorRequests ->
           IF found THEN Req("spaces_q")
           ELSE Fail(Err("Floor not found", p))
      [] p \in SpaceRequests ->
           IF found THEN ensureBuildingTimezone(building)
           ELSE Fail(Err("Space not found", p))
      [] p = "building_detail" -> AfterTimezone
      [] p = "post_primary" -> Req("post_secondary")
      [] p = "post_secondary" -> Created(CreatedBooking(p))

\* the awaited request p succeeded; found: its collection holds the name
\* looked for; building: the record findBuildingByName returned
OnResponse(p, found, building) ==
    CASE p \in UserRequests ->
           IF found THEN Req("buildings")
           ELSE Fail(Err("User not found by email", p))
      [] p = "buildings" ->
           IF found THEN Req("floors_q")
           ELSE Fail(Err("Building not found", p))
      [] p \in FloorRequests ->
           IF found THEN Req("spaces_q")
           ELSE Fail(Err("Floor not found", p))
      [] p \in SpaceRequests ->
           IF found THEN ensureBuildingTimezone(building)
           ELSE Fail(Err("Space not found", p))
      [] p = "building_detail" -> AfterTimezone
      [] p \in PostRequests -> Created(CreatedBooking(p))

\* the parent ids a listing by path can have in its URL (lines 500 and 523:
\* `/buildings/${buildingId}/floors`, `/floors/${floorId}/spaces`)
ParentIds(p) ==
    IF p = "floors_path" THEN {"b1", "undefined"}
    ELSE IF p = "spaces_path" THEN {"f1", "undefined"}
    ELSE {""}

\* the error of a failed request: its message, and for a listing by path
\* the parent id of the request
RequestError(msg, p, id) == [Err(msg, p) EXCEPT !.parent = id]

\* faulty variant: the message names no parent
ListingErrorBare(m, e) == [Err(m, e.at) EXCEPT !.cause = e.msg]

\* lines 504 and 525: the error thrown when both listings failed
ListingError(m, e) ==
    [Err(m, e.at) EXCEPT !.parent = e.parent, !.cause = e.msg]

\* faulty variant: createBooking gives up after its first attempt
OnFailureSingleAttempt(p, e) ==
    CASE p = "users_q" -> Req("users_all")
      [] p = "floors_q" -> Req("floors_path")
      [] p = "floors_path" ->
           Fail(ListingError("Unable to list floors for building", e))
      [] p = "spaces_q" -> Req("spaces_path")
      [] p = "spaces_path" ->
           Fail(ListingError("Unable to list spaces for floor", e))
      [] p = "building_detail" -> AfterTimezone
      [] OTHER -> Fail(e)

\* faulty variant: findUserByEmail does not list all users when the
\* filtered request failed
OnFailureNoUserFallback(p, e) ==
    CASE p = "floors_q" -> Req("floors_path")
      [] p = "floors_path" ->
           Fail(ListingError("Unable to list floors for building", e))
      [] p = "spaces_q" -> Req("spaces_path")
      [] p = "spaces_path" ->
           Fail(ListingError("Unable to list spaces for floor", e))
      [] p = "building_detail" -> AfterTimezone
      [] p = "post_primary" -> Req("post_secondary")
      [] OTHER -> Fail(e)

\* the awaited request p was rejected with error e
OnFailure(p, e) ==
    CASE p = "users_q" -> Req("users_all")
      [] p = "users_all" -> Fail(e)
      [] p = "buildings" -> Fail(e)
      [] p = "floors_q" -> Req("floors_path")
      [] p = "floors_path" ->
           Fail(ListingError("Unable to list floors for building", e))
      [] p = "spaces_q" -> Req("spaces_path")
      [] p = "spaces_path" ->
           Fail(ListingError("Unable to list spaces for floor", e))
      [] p = "building_detail" -> AfterTimezone
      [] p = "post_primary" -> Req("post_secondary")
      [] p = "post_secondary" -> Fail(e)

----------------------------------------------------------------------------
(* run(): the pool (lines 775-803) *)

Truthy(v) == ~v.nan /\ v.n # 0

\* faulty variant: one worker too many
EffectiveConcurrencyPlusOne(req) ==
    (IF Truthy(req) /\ req.n > 1 THEN req.n ELSE 1) + 1

\* Math.max(1, Number(opts.concurrency || 1))
EffectiveConcurrency(req) ==
    LET n == IF Truthy(req) THEN req.n ELSE 1
    IN  IF n > 1 THEN n ELSE 1

\* faulty variant: the loop stops one row early
HasRowButLast(cursor) == cursor < Len(rows) - 1

\* index < rows.length
HasRow(cursor) == cursor < Len(rows)

\* faulty variant: the cursor is read and not advanced
AfterClaimStuck(cursor) == cursor

\* index++
AfterClaim(cursor) == cursor + 1

\* faulty variant: the 0-based index is reported
RowNumberZeroBased(idx) == idx

\* rowIdx + 1, the number an outcome and a log line report
RowNumber(idx) == idx + 1

\* where a worker that claimed row number n (1-based) first waits
FirstWait(n) ==
    IF ValidationError(rows[n]) # NoError THEN [pc |-> "validate", phase |-> "threw"]
    ELSE [pc |-> "users_q", phase |-> GetTokenSync]

\* the top of the worker's loop: claim the next row and start processRow
\* for it, or leave the loop
ClaimNext(w) ==
    IF HasRow(index)
    THEN /\ index' = AfterClaim(index)
         /\ rowIdx' = [rowIdx EXCEPT ![w] = index]
         /\ started' = [started EXCEPT ![index + 1] = @ + 1]
         /\ pc' = [pc EXCEPT ![w] = FirstWait(index + 1).pc]
         /\ phase' = [phase EXCEPT ![w] = FirstWait(index + 1).phase]
         /\ tokenNow' = [tokenNow EXCEPT ![w] = now]
         /\ bearer' = [bearer EXCEPT ![w] = Bearer(FirstWait(index + 1).phase)]
         /\ sent' = [sent EXCEPT ![index + 1] = Wire(FirstWait(index + 1).phase)]
    ELSE /\ pc' = [pc EXCEPT ![w] = "exit"]
         /\ phase' = [phase EXCEPT ![w] = "-"]
         /\ bearer' = [bearer EXCEPT ![w] = NoToken]
         /\ UNCHANGED <<index, rowIdx, started, tokenNow, sent>>

\* a worker that leaves the loop; ContinueUnlessFailed is Continue without
\* the try around the await of line 790
LeaveLoop(w) ==
    /\ pc' = [pc EXCEPT ![w] = "exit"]
    /\ phase' = [phase EXCEPT ![w] = "-"]
    /\ bearer' = [bearer EXCEPT ![w] = NoToken]
    /\ UNCHANGED <<index, rowIdx, started, tokenNow, sent>>

ContinueUnlessFailed(w, ok) == IF ok THEN ClaimNext(w) ELSE LeaveLoop(w)

\* lines 780 and 789-799: the try is inside while (true), so after a success
\* and after a caught failure alike the worker is back at the top of the loop
Continue(w, ok) == ClaimNext(w)

\* lines 791 and 795-797, then the loop again: the outcome of the worker's
\* row is recorded, a failure is logged, the next row is claimed
Outcome(w, eff, io) ==
    LET row == rows[rowIdx[w] + 1]
        entry == [row |-> RowNumber(rowIdx[w]), ok |-> eff.kind = "success",
                  status |-> eff.status, error |-> eff.error, id |-> eff.id]
        lg == appendFailureLog(RowNumber(rowIdx[w]), row, eff.error, io)
    IN  /\ results' = Append(results, entry)
        /\ inputs' = Append(inputs, [idx |-> rowIdx[w], row |-> row])
        /\ IF entry.ok
           THEN UNCHANGED logVars
           ELSE /\ logFile' = lg.file
                /\ logInitialized' = lg.init
                /\ headerWrites' = headerWrites + (IF lg.header THEN 1 ELSE 0)
                /\ logWriteFailed' = (logWriteFailed \/ lg.raised)
        /\ Continue(w, entry.ok)
        /\ UNCHANGED <<posts, attempts>>

\* the worker makes request r: the interceptor runs getToken first
Request(w, r) ==
    /\ pc' = [pc EXCEPT ![w] = r]
    /\ phase' = [phase EXCEPT ![w] = GetTokenSync]
    /\ tokenNow' = [tokenNow EXCEPT ![w] = now]
    /\ bearer' = [bearer EXCEPT ![w] = Bearer(GetTokenSync)]
    /\ posts' = IF GetTokenSync = "http" /\ r \in PostRequests
                THEN [posts EXCEPT ![rowIdx[w] + 1] = @ + 1]
                ELSE posts
    /\ sent' = [sent EXCEPT ![rowIdx[w] + 1] = @ \cup Wire(GetTokenSync)]
    /\ attempts' = IF r \in PostRequests
                   THEN [attempts EXCEPT ![rowIdx[w] + 1] = Append(@, Body(r))]
                   ELSE attempts
    /\ UNCHANGED <<rowIdx, poolVars, logVars>>

Apply(w, eff, io) ==
    IF eff.kind = "request" THEN Request(w, eff.req) ELSE Outcome(w, eff, io)

\* how the awaited request was settled, for as long as its row goes on
Hear(w, eff, answer) ==
    heard' = [heard EXCEPT ![w] = IF eff.kind = "request" THEN answer ELSE "-"]

\* the log outcomes appendFailureLog can have for this step
IoChoices(eff) ==
    IF eff.kind # "failure" THEN {"ok"}
    ELSE IF logInitialized THEN {"ok", "append throws"}
    ELSE IoOutcomes

Cost(io) == IF io = "ok" THEN 0 ELSE 1

----------------------------------------------------------------------------
(* The functions of the row pipeline that only compute (lines 444-466 and   *)
(* 485-605): the search of a fetched collection, the entity id, the time    *)
(* zone of a building and the booking window.  Text is a sequence of        *)
(* characters; an absent field and an empty one are both <<>>, the code     *)
(* only tests them with || and !.                                           *)

\* the texts of at most n characters of S
Strs(S, n) == UNION {[1..k -> S] : k \in 0..n}

\* the response collections: at most two of the entities of S
Collections(S) == UNION {[1..k -> S] : k \in 0..2}

\* String.prototype.toLowerCase, on one character
ToLowerCase(c) ==
    CASE c = "A" -> "a"
      [] c = "B" -> "b"
      [] OTHER -> c

\* faulty variant: the blanks around the value are kept
normalizeStringUntrimmed(value) == [i \in 1..Len(value) |-> ToLowerCase(value[i])]

\* String(value || '').trim().toLowerCase()
normalizeString(value) ==
    [i \in 1..Len(Trim(value)) |-> ToLowerCase(Trim(value)[i])]

\* Array.prototype.find, given the positions at which the callback is true:
\* the position of the element found, 0 for undefined
Find(hits) ==
    IF hits = {} THEN 0 ELSE CHOOSE i \in hits : \A j \in hits : i <= j

\* a function that has not returned, one that returned, one that threw
NoCall == [fn |-> "none"]
NoReturn == [kind |-> "pending"]
Returned(v) == [kind |-> "returned", value |-> v]
Threw(m) == [kind |-> "threw", msg |-> m]

\* found, or `throw new Error(...)`
FoundOr(at, m) == IF at = 0 THEN Threw(m) ELSE Returned(at)

\* lines 486-491, after the response has arrived
findBuildingByName(buildings, buildingName) ==
    LET nameNorm == normalizeString(buildingName)
        found == Find({i \in DOMAIN buildings :
                         normalizeString(buildings[i].name) = nameNorm})
    IN  FoundOr(found, "Building not found")

\* lines 510-513
findFloorByName(floors, floorName) ==
    LET nameNorm == normalizeString(floorName)
        found == Find({i \in DOMAIN floors :
                         normalizeString(floors[i].name) = nameNorm})
    IN  FoundOr(found, "Floor not found")

\* lines 553-556
findUserByEmail(members, email) ==
    LET emailNorm == normalizeString(email)
        found == Find({i \in DOMAIN members :
                         \/ normalizeString(members[i].email) = emailNorm
                         \/ normalizeString(members[i].primaryEmail) = emailNorm})
    IN  FoundOr(found, "User not found by email")

\* s.type || s.spaceType || s.kind || s.category
TypeOf(s) ==
    IF s.type # <<>> THEN s.type
    ELSE IF s.spaceType # <<>> THEN s.spaceType
    ELSE IF s.kind # <<>> THEN s.kind
    ELSE s.category

\* faulty variant: a space without a type does not pass a type filter
SpaceMatchesTypedOnly(s, nameNorm, typeNorm) ==
    /\ \/ normalizeString(s.name) = nameNorm
       \/ normalizeString(s.displayName) = nameNorm
    /\ \/ typeNorm = <<>>
       \/ normalizeString(TypeOf(s)) = typeNorm

\* the callback of spaces.find (lines 533-539)
SpaceMatches(s, nameNorm, typeNorm) ==
    /\ \/ normalizeString(s.name) = nameNorm
       \/ normalizeString(s.displayName) = nameNorm
    /\ \/ typeNorm = <<>>
       \/ normalizeString(TypeOf(s)) = <<>>
       \/ normalizeString(TypeOf(s)) = typeNorm

\* lines 531-541
findSpaceByName(spaces, spaceName, spaceType) ==
    LET nameNorm == normalizeString(spaceName)
        typeNorm == normalizeString(spaceType)
        candidate == Find({i \in DOMAIN spaces :
                             SpaceMatches(spaces[i], nameNorm, typeNorm)})
    IN  FoundOr(candidate, "Space not found")

\* str.split('?')[0]
RECURSIVE BeforeQuery(_)
BeforeQuery(str) ==
    IF str = <<>> \/ Head(str) = "?" THEN <<>>
    ELSE <<Head(str)>> \o BeforeQuery(Tail(str))

\* noQuery.split('/').filter(Boolean): the segments that are not empty
RECURSIVE Segments(_, _)
Segments(str, cur) ==
    IF str = <<>> THEN (IF cur = <<>> THEN <<>> ELSE <<cur>>)
    ELSE IF Head(str) = "/"
    THEN (IF cur = <<>> THEN <<>> ELSE <<cur>>) \o Segments(Tail(str), <<>>)
    ELSE Segments(Tail(str), Append(cur, Head(str)))

\* lines 449-455; <<>> for undefined
extractIdFromIri(iriOrId) ==
    LET parts == Segments(BeforeQuery(iriOrId), <<>>)
    IN  IF iriOrId = <<>> THEN <<>>
        ELSE IF Len(parts) > 0 THEN parts[Len(parts)]
        ELSE iriOrId

\* entity.id || extractIdFromIri(entity['@id']) || entity.identifier ||
\* entity.uuid
getEntityId(entity) ==
    IF entity.id # <<>> THEN entity.id
    ELSE IF extractIdFromIri(entity.iri) # <<>> THEN extractIdFromIri(entity.iri)
    ELSE IF entity.identifier # <<>> THEN entity.identifier
    ELSE entity.uuid

\* full.timezone || full.timeZone || full.tz || full.time_zone || tz
DetailTimezone(full, tz) ==
    Or(full.timezone, Or(full.timeZone, Or(full.tz, Or(full.time_zone, tz))))

\* faulty variant: /^\d{2}:\d{2}$/
isValidTimeStringTwoDigits(value) ==
    LET str == Trim(value)
    IN  /\ Len(str) = 5
        /\ \A i \in {1, 2, 4, 5} : str[i] \in Digits
        /\ str[3] = ":"

\* /^\d{1,2}:\d{2}$/.test(String(value || '').trim())
isValidTimeString(value) ==
    LET str == Trim(value)
    IN  \E h \in 1..2 :
          /\ Len(str) = h + 3
          /\ \A i \in 1..h : str[i] \in Digits
          /\ str[h + 1] = ":"
          /\ str[h + 2] \in Digits
          /\ str[h + 3] \in Digits

\* the number a digit stands for
DigitValue(c) == CHOOSE n \in 0..9 : ToString(n) = c

\* what moment reads from a text of the form H:mm
ParseHmm(str) ==
    LET h == Len(str) - 3
        hours == IF h = 1 THEN DigitValue(str[1])
                 ELSE 10 * DigitValue(str[1]) + DigitValue(str[2])
        minutes == 10 * DigitValue(str[h + 2]) + DigitValue(str[h + 3])
    IN  [hours |-> hours, minutes |-> minutes]

\* minutes the zone is ahead of UTC on the dates of the rows (August)
UtcOffset(tz) ==
    CASE tz = "Europe/London" -> 60
      [] tz = "Europe/Paris" -> 120
      [] OTHER -> 0

\* toISOString() of a moment that is not valid
InvalidDate == [valid |-> FALSE, date |-> <<>>, minute |-> 0]

\* moment.tz(`${date} ${str}`, 'YYYY-MM-DD H:mm', tz).utc().toISOString():
\* the instant as the UTC minute of the date, null for a time of day that
\* does not exist
LocalToUtc(date, str, tz) ==
    LET t == ParseHmm(str)
    IN  IF t.hours > 23 \/ t.minutes > 59 THEN InvalidDate
        ELSE [valid |-> TRUE, date |-> date,
              minute |-> 60 * t.hours + t.minutes - UtcOffset(tz)]

\* lines 599-604
computeUtcRangeForDateAndTimes(buildingTz, dateStr, startTimeStr, endTimeStr) ==
    LET date == Trim(dateStr)
        startStr == IF isValidTimeString(startTimeStr) THEN Trim(startTimeStr)
                    ELSE DefaultStart
        endStr == IF isValidTimeString(endTimeStr) THEN Trim(endTimeStr)
                  ELSE DefaultEnd
    IN  [startUtc |-> LocalToUtc(date, startStr, buildingTz),
         endUtc |-> LocalToUtc(date, endStr, buildingTz),
         date |-> date]

----------------------------------------------------------------------------
(* Init: an invocation, before run() does anything *)

\* The invocations explored.  With a static token alone and no log file yet,
\* every requested concurrency, input and mode; the other credentials and
\* the other log files each on their own, on the largest pool, creating
\* bookings.
Scenario ==
    \/ staticToken /\ ~keyPair /\ logFileAtStart = AbsentFile
    \/ requested = Num(MaxConcurrency) /\ logFileAtStart = AbsentFile /\ ~dryRun
    \/ requested = Num(MaxConcurrency) /\ staticToken /\ ~keyPair /\ ~dryRun

\* the command line, the environment and the files
Invocation ==
    /\ dryRun \in BOOLEAN
    /\ requested \in RequestedValues
    /\ staticToken \in BOOLEAN
    /\ keyPair \in BOOLEAN
    /\ inputFile \in InputFiles
    /\ rows \in RowLists
    /\ inputFile # "rows" => rows = <<>>
    /\ logFileAtStart \in InitialLogFiles
    /\ Scenario

\* the process before run() is called
BeforeRun ==
    /\ logFile = logFileAtStart
    /\ runPc = "start"
    /\ exitCode = 0
    /\ summary = NoSummary
    /\ index = 0
    /\ results = <<>>
    /\ inputs = <<>>
    /\ logInitialized = FALSE
    /\ headerWrites = 0
    /\ logWriteFailed = FALSE
    /\ cachedToken = NoToken
    /\ tokenExpiresAtMs = 0
    /\ now = 0
    /\ ticks = 0
    /\ tokenResp = NoResponse
    /\ pc = <<>>
    /\ phase = <<>>
    /\ rowIdx = <<>>
    /\ tokenNow = <<>>
    /\ bearer = <<>>
    /\ heard = <<>>
    /\ started = [i \in 1..Len(rows) |-> 0]
    /\ posts = [i \in 1..Len(rows) |-> 0]
    /\ accepted = [i \in 1..Len(rows) |-> 0]
    /\ sent = [i \in 1..Len(rows) |-> {}]
    /\ attempts = [i \in 1..Len(rows) |-> <<>>]
    /\ faults = 0

Init ==
    /\ Invocation
    /\ BeforeRun
    /\ call = NoCall
    /\ ret = NoReturn

----------------------------------------------------------------------------
(* Actions *)

\* the cursor when the w-th worker() call of line 802 reaches line 783: each
\* call runs to its first await before the next one is made
RECURSIVE CursorBefore(_)
CursorBefore(w) ==
    IF w = 1 THEN 0
    ELSE LET c == CursorBefore(w - 1)
         IN  IF HasRow(c) THEN AfterClaim(c) ELSE c

\* lines 719-723 and 767-802: without the file, or when reading it fails
\* (lines 812-815), the process exits with 1; no rows, nothing to do;
\* otherwise the workers are created
RunStart ==
    /\ runPc = "start"
    /\ IF inputFile # "rows"
       THEN /\ runPc' = "done"
            /\ exitCode' = 1
            /\ UNCHANGED <<poolVars, workerVars, sent>>
       ELSE IF Len(rows) = 0
       THEN /\ runPc' = "done"
            /\ UNCHANGED <<exitCode, poolVars, workerVars, sent>>
       ELSE LET n == EffectiveConcurrency(requested)
                claims(w) == HasRow(CursorBefore(w))
                wait(w) == FirstWait(CursorBefore(w) + 1)
            IN  /\ runPc' = "running"
                /\ index' = CursorBefore(n + 1)
                /\ rowIdx' = [w \in 1..n |->
                                IF claims(w) THEN CursorBefore(w) ELSE -1]
                /\ pc' = [w \in 1..n |->
                            IF claims(w) THEN FirstWait(CursorBefore(w) + 1).pc
                            ELSE "exit"]
                /\ phase' = [w \in 1..n |->
                               IF claims(w)
                               THEN FirstWait(CursorBefore(w) + 1).phase
                               ELSE "-"]
                /\ tokenNow' = [w \in 1..n |-> now]
                /\ bearer' = [w \in 1..n |->
                                IF claims(w) THEN Bearer(wait(w).phase)
                                ELSE NoToken]
                /\ heard' = [w \in 1..n |-> "-"]
                /\ sent' = [i \in 1..Len(rows) |->
                              IF \E w \in 1..n :
                                    claims(w) /\ CursorBefore(w) + 1 = i
                              THEN Wire(FirstWait(i).phase)
                              ELSE {}]
                /\ started' = [i \in 1..Len(rows) |->
                                 Cardinality({w \in 1..n :
                                     claims(w) /\ CursorBefore(w) + 1 = i})]
                /\ UNCHANGED <<exitCode, results, inputs>>
    /\ UNCHANGED <<pureVars, cfgVars, summary, logVars, tokenVars, posts, accepted,
                   attempts, faults>>

\* the token exchange of a waiting request answers (lines 400-412)
TokenResponse(w) ==
    /\ runPc = "running"
    /\ w \in DOMAIN pc
    /\ phase[w] = "token"
    /\ \/ \E data \in TokenResponses(now) :
            /\ faults + ShortLived(data.expires_in) <= MaxFaults
            /\ faults' = faults + ShortLived(data.expires_in)
            /\ tokenResp' = data
            /\ cachedToken' = data.access_token
            /\ tokenExpiresAtMs' = ExpiresAt(tokenNow[w], now, data.expires_in)
            /\ phase' = [phase EXCEPT ![w] = "http"]
            /\ bearer' = [bearer EXCEPT ![w] = cachedToken']
            /\ posts' = IF pc[w] \in PostRequests
                        THEN [posts EXCEPT ![rowIdx[w] + 1] = @ + 1]
                        ELSE posts
            /\ sent' = [sent EXCEPT ![rowIdx[w] + 1] = @ \cup {"api"}]
            /\ UNCHANGED <<pc, rowIdx, tokenNow, heard, poolVars, logVars,
                           now, ticks, attempts>>
       \/ \E msg \in {"token request failed",
                      "Failed to obtain access token from Kadence."} :
          \E id \in ParentIds(pc[w]) :
          LET eff == OnFailure(pc[w], RequestError(msg, pc[w], id))
          IN  \E io \in IoChoices(eff) :
                /\ faults + 1 + Cost(io) <= MaxFaults
                /\ faults' = faults + 1 + Cost(io)
                /\ Apply(w, eff, io)
                /\ Hear(w, eff, "token failed")
                /\ UNCHANGED tokenVars
    /\ UNCHANGED <<pureVars, cfgVars, runVars, accepted>>

\* what the remote service can answer to request p
Answers(p) == IF p \in ListRequests THEN {"found", "no match", "error"}
              ELSE {"found", "error"}

\* what the answer to request p can lead to: its failure for every parent id
\* the request can have named, its success for every building record that
\* the row can have found
Effects(p, answer) ==
    IF answer = "error"
    THEN {OnFailure(p, RequestError("HTTP error", p, id)) : id \in ParentIds(p)}
    ELSE {OnResponse(p, answer = "found", building) :
            building \in BuildingRecords}

\* the request a worker awaits is answered or fails
HttpResponse(w) ==
    /\ runPc = "running"
    /\ w \in DOMAIN pc
    /\ phase[w] = "http"
    /\ \E answer \in Answers(pc[w]) :
       \E eff \in Effects(pc[w], answer) :
         LET fault == IF answer = "found" THEN 0 ELSE 1
         IN  \E io \in IoChoices(eff) :
               /\ faults + fault + Cost(io) <= MaxFaults
               /\ faults' = faults + fault + Cost(io)
               /\ Apply(w, eff, io)
               /\ Hear(w, eff, answer)
               /\ accepted' = IF pc[w] \in PostRequests /\ answer = "found"
                               THEN [accepted EXCEPT ![rowIdx[w] + 1] = @ + 1]
                               ELSE accepted
    /\ UNCHANGED <<pureVars, cfgVars, runVars, tokenVars>>

\* a promise that was rejected without any I/O is handled: processRow threw
\* in its validation, or getToken threw for want of credentials
Rejected(w) ==
    /\ runPc = "running"
    /\ w \in DOMAIN pc
    /\ phase[w] \in {"threw", "noauth"}
    /\ LET eff == IF phase[w] = "threw"
                  THEN Fail(ValidationError(rows[rowIdx[w] + 1]))
                  ELSE OnFailure(pc[w], Err("Missing Kadence credentials", pc[w]))
       IN  \E io \in IoChoices(eff) :
             /\ faults + Cost(io) <= MaxFaults
             /\ faults' = faults + Cost(io)
             /\ Apply(w, eff, io)
             /\ Hear(w, eff, "no credentials")
    /\ UNCHANGED <<pureVars, cfgVars, runVars, tokenVars, accepted>>

\* faulty variant: every outcome counts as a success
successCountAll(res) == Len(res)

\* results.filter((r) => r.ok).length
successCount(res) == Len(SelectSeq(res, LAMBDA r : r.ok))

\* results.length - successCount
failureCount(res) == Len(res) - successCount(res)

\* faulty variant: the failures do not reach the exit code
ExitCodeAfterIgnoresFailures(failures, code) == code

\* if (failureCount > 0) process.exitCode = 1
ExitCodeAfter(failures, code) == IF failures > 0 THEN 1 ELSE code

\* lines 803-809: all workers have returned; the summary and the exit code
Summary ==
    /\ runPc = "running"
    /\ \A w \in DOMAIN pc : pc[w] = "exit"
    /\ runPc' = "done"
    /\ summary' = [printed |-> TRUE, success |-> successCount(results),
                   failed |-> failureCount(results)]
    /\ exitCode' = ExitCodeAfter(failureCount(results), exitCode)
    /\ UNCHANGED <<pureVars, cfgVars, poolVars, logVars, tokenVars, workerVars,
                   posts, accepted, sent, attempts, faults>>

\* the clock moves on while requests are awaited: by the refresh margin, or
\* by what a token of the default lifetime has before its refresh is due
TickSteps == {RefreshMarginMs, ExpiresMs(0) - RefreshMarginMs}

Tick ==
    /\ runPc = "running"
    /\ ticks < MaxTicks
    /\ ticks' = ticks + 1
    /\ \E d \in TickSteps : now' = now + d
    /\ UNCHANGED <<pureVars, cfgVars, runVars, poolVars, logVars, workerVars,
                   cachedToken, tokenExpiresAtMs, tokenResp,
                   posts, accepted, sent, attempts, faults>>

Workers == 1..(MaxConcurrency + 1)

Next ==
    \/ RunStart
    \/ \E w \in Workers : TokenResponse(w)
    \/ \E w \in Workers : HttpResponse(w)
    \/ \E w \in Workers : Rejected(w)
    \/ Summary

Spec == Init /\ [][Next]_vars

\* the run with client credentials alone, on the largest pool, while time
\* passes
TokenInit ==
    /\ dryRun = TRUE
    /\ requested = Num(MaxConcurrency)
    /\ staticToken = FALSE
    /\ keyPair = TRUE
    /\ inputFile = "rows"
    /\ rows \in {<<RowValid, RowValid>>, <<RowMissing, RowValid>>}
    /\ logFileAtStart = AbsentFile
    /\ BeforeRun
    /\ call = NoCall
    /\ ret = NoReturn

TokenNext == Next \/ Tick

TokenSpec == TokenInit /\ [][TokenNext]_vars

----------------------------------------------------------------------------
(* One call of a function of the row pipeline, with arguments of every kind *)

NameChars == {"a", "A", "b", " "}

\* the values a row can give for a name, an email address or a type
NameStrs == Strs(NameChars, MaxLen)

\* the names the entities of a response have; <<>>: an entity without one
EntityNames ==
    {<<>>, <<"a">>, <<"A", " ">>, <<" ", "b">>, <<"a", "b">>,
     <<"a", " ", "b">>}

NamedRecords == {[name |-> n] : n \in EntityNames}

User(email, primaryEmail) == [email |-> email, primaryEmail |-> primaryEmail]

UserRecords ==
    {User(<<"a">>, <<>>), User(<<>>, <<"A", " ">>), User(<<"b">>, <<"a">>),
     User(<<>>, <<>>), User(<<"a", "b">>, <<" ", "B">>)}

Space(name, displayName, type, spaceType, kind, category) ==
    [name |-> name, displayName |-> displayName, type |-> type,
     spaceType |-> spaceType, kind |-> kind, category |-> category]

SpaceRecords ==
    {Space(<<"a">>, <<>>, <<"a">>, <<>>, <<>>, <<>>),
     Space(<<"a">>, <<>>, <<"b">>, <<>>, <<>>, <<>>),
     Space(<<"A", " ">>, <<>>, <<" ", "A">>, <<>>, <<>>, <<>>),
     Space(<<"a">>, <<>>, <<>>, <<>>, <<>>, <<>>),
     Space(<<"a">>, <<>>, <<" ">>, <<"b">>, <<>>, <<>>),
     Space(<<"b">>, <<"a">>, <<>>, <<"a">>, <<>>, <<>>),
     Space(<<"a">>, <<>>, <<>>, <<>>, <<"b">>, <<"a">>),
     Space(<<"b">>, <<>>, <<"a">>, <<>>, <<>>, <<>>)}

\* the names a space is looked for by
SpaceNames == {<<"a">>, <<" ", "A">>, <<"b">>}

IriChars == {"/", "?", "x", "7"}

\* self-references: '/x/7', 'h://x/7', '/x/7/', '/x/7?x=7', 'x7?/7', and
\* every text of at most MaxLen characters
Iris ==
    {<<"/", "x", "/", "7">>, <<"h", ":", "/", "/", "x", "/", "7">>,
     <<"/", "x", "/", "7", "/">>, <<"/", "x", "/", "7", "?", "x", "=", "7">>,
     <<"x", "7", "?", "/", "7">>}
      \cup Strs(IriChars, MaxLen)

EntityRecords ==
    {[id |-> id, iri |-> iri, identifier |-> identifier, uuid |-> uuid] :
        id \in {<<>>, <<"7">>}, iri \in Iris, identifier \in {<<>>, <<"i">>},
        uuid \in {<<>>, <<"u">>}}

\* Start Time and End Time: absent or empty, '9am', '9:00', '09:00',
\* ' 10:30 ', '10:30', '9:0', '930', '123:00', '9:305', ':30', '25:99'
TimeTexts ==
    {<<>>, <<"9", "a", "m">>, <<"9", ":", "0", "0">>,
     <<"0", "9", ":", "0", "0">>, <<" ", "1", "0", ":", "3", "0", " ">>,
     <<"1", "0", ":", "3", "0">>, <<"9", ":", "0">>, <<"9", "3", "0">>,
     <<"1", "2", "3", ":", "0", "0">>, <<"9", ":", "3", "0", "5">>,
     <<":", "3", "0">>, <<"2", "5", ":", "9", "9">>}

TimezoneValues == {"", "UTC", "Europe/London"}

\* building records, and resp.data of GET /buildings/{id}; the one without
\* any field stands for `resp.data || {}`
TimezoneRecords ==
    {Building(id, a, b, c, d) :
        id \in {"b1", ""}, a \in TimezoneValues, b \in TimezoneValues,
        c \in TimezoneValues, d \in TimezoneValues}

Calls ==
    {[fn |-> f, items |-> items, name |-> name] :
        f \in {"findBuildingByName", "findFloorByName"},
        items \in Collections(NamedRecords), name \in NameStrs}
    \cup {[fn |-> "findUserByEmail", items |-> items, name |-> name] :
            items \in Collections(UserRecords), name \in NameStrs}
    \cup {[fn |-> "findSpaceByName", items |-> items, name |-> name,
           type |-> type] :
            items \in Collections(SpaceRecords), name \in SpaceNames,
            type \in NameStrs}
    \cup {[fn |-> "getEntityId", entity |-> e] : e \in EntityRecords}
    \cup {[fn |-> "ensureBuildingTimezone", building |-> b] :
            b \in TimezoneRecords}
    \cup {[fn |-> "computeUtcRangeForDateAndTimes", tz |-> tz, date |-> date,
           start |-> start, end |-> end] :
            tz \in {"UTC", "Europe/London"},
            date \in {RowValid.date, RowPaddedDate.date},
            start \in TimeTexts, end \in TimeTexts}

CallInit ==
    /\ dryRun = FALSE
    /\ requested = Num(1)
    /\ staticToken = TRUE
    /\ keyPair = FALSE
    /\ inputFile = "rows"
    /\ rows = <<>>
    /\ logFileAtStart = AbsentFile
    /\ BeforeRun
    /\ call \in Calls
    /\ ret = NoReturn

Calling(f) == call.fn = f /\ ret.kind = "pending"

FindBuilding ==
    /\ Calling("findBuildingByName")
    /\ ret' = findBuildingByName(call.items, call.name)
    /\ UNCHANGED <<call, runState>>

FindFloor ==
    /\ Calling("findFloorByName")
    /\ ret' = findFloorByName(call.items, call.name)
    /\ UNCHANGED <<call, runState>>

FindUser ==
    /\ Calling("findUserByEmail")
    /\ ret' = findUserByEmail(call.items, call.name)
    /\ UNCHANGED <<call, runState>>

FindSpace ==
    /\ Calling("findSpaceByName")
    /\ ret' = findSpaceByName(call.items, call.name, call.type)
    /\ UNCHANGED <<call, runState>>

EntityId ==
    /\ Calling("getEntityId")
    /\ ret' = Returned(getEntityId(call.entity))
    /\ UNCHANGED <<call, runState>>

\* the answer to GET /buildings/{id}: none yet, a failure, or resp.data
NoDetail == [state |-> "none", data |-> Building("", "", "", "", "")]
DetailFailed == [state |-> "failed", data |-> Building("", "", "", "", "")]
Detail(full) == [state |-> "received", data |-> full]

\* what ensureBuildingTimezone has come to: its value, the requests for the
\* building detail it made and the answer it had
Zone(kind, tz, fetches, detail) ==
    [kind |-> kind, value |-> tz, fetches |-> fetches, detail |-> detail]

\* lines 570-575: the value at once, or the request for the building detail
EnsureTimezone ==
    /\ Calling("ensureBuildingTimezone")
    /\ ret' = IF ensureBuildingTimezone(call.building) = Req("building_detail")
              THEN Zone("awaiting", resolveBuildingTimezone(call.building), 1,
                        NoDetail)
              ELSE Zone("returned", resolveBuildingTimezone(call.building), 0,
                        NoDetail)
    /\ UNCHANGED <<call, runState>>

\* lines 576-581: the detail arrives, or the request fails and is caught
BuildingDetail ==
    /\ call.fn = "ensureBuildingTimezone"
    /\ ret.kind = "awaiting"
    /\ \/ \E full \in TimezoneRecords :
            ret' = Zone("returned", DetailTimezone(full, ret.value),
                        ret.fetches, Detail(full))
       \/ ret' = Zone("returned", ret.value, ret.fetches, DetailFailed)
    /\ UNCHANGED <<call, runState>>

TimeWindow ==
    /\ Calling("computeUtcRangeForDateAndTimes")
    /\ ret' = Returned(computeUtcRangeForDateAndTimes(call.tz, call.date,
                                                      call.start, call.end))
    /\ UNCHANGED <<call, runState>>

CallNext ==
    \/ FindBuilding
    \/ FindFloor
    \/ FindUser
    \/ FindSpace
    \/ EntityId
    \/ EnsureTimezone
    \/ BuildingDetail
    \/ TimeWindow

CallSpec == CallInit /\ [][CallNext]_vars

\* every callback that is ready runs, and every request is answered or
\* times out (timeout: 30000, line 384)
FairSpec == Spec /\ WF_vars(Next)

----------------------------------------------------------------------------
(* Notions the properties share *)

WorkerSet == DOMAIN pc
Busy(w) == pc[w] # "exit"
RowSet == 1..Len(rows)
Recorded(i) == \E k \in 1..Len(results) : results[k].row = i
OutcomesOf(i) == {k \in 1..Len(results) : results[k].row = i}
\* the rows whose pipeline has started and has no outcome yet
InFlight == {i \in RowSet : started[i] > 0 /\ ~Recorded(i)}
\* max(1, n) of the requested --concurrency, 1 for a non-numeric one
PoolSize ==
    IF requested.nan THEN 1
    ELSE IF requested.n >= 1 THEN requested.n
    ELSE 1
Failed == SelectSeq(results, LAMBDA r : ~r.ok)
LastOf(seq) == seq[Len(seq)]

----------------------------------------------------------------------------
(* C1 *)

----------------------------------------------------------------------------
(* C2 *)

\* C2: at every moment the number of rows whose pipeline has started and
\* not yet reached an outcome is at most the effective pool size
\* max(1, requested --concurrency), whatever was requested (0, a negative
\* number, a non-numeric value, more than there are rows); the pool has
\* that many workers.
C2_InFlightAtMostPoolSize ==
    /\ Cardinality(InFlight) <= PoolSize
    /\ runPc # "start" /\ Len(rows) > 0 => Cardinality(WorkerSet) = PoolSize

\* the bound is reached by a pool of MaxConcurrency workers
C2_Witness ==
    /\ PoolSize = MaxConcurrency
    /\ Cardinality(InFlight) = MaxConcurrency

----------------------------------------------------------------------------
(* C3 *)

----------------------------------------------------------------------------
(* C4 *)

\* C4: every outcome in results reports the 1-based position of the row
\* its worker processed, that is the cursor value at claim time plus one,
\* for successes and failures alike; no position is reported twice; when
\* the run is done results holds exactly one outcome for each position
\* 1..rows.length.
C4_OutcomesReportRowPosition ==
    /\ Len(inputs) = Len(results)
    /\ \A k \in 1..Len(results) :
         /\ results[k].row = inputs[k].idx + 1
         /\ results[k].row \in RowSet
         /\ inputs[k].row = rows[results[k].row]
    /\ \A k, l \in 1..Len(results) :
         k # l => results[k].row # results[l].row
    /\ runPc = "done" =>
         /\ Len(results) = Len(rows)
         /\ {results[k].row : k \in 1..Len(results)} = RowSet

\* a finished run whose outcomes are not in input order, one of them a
\* failure and one a success
C4_Witness ==
    /\ runPc = "done"
    /\ Len(results) = 2
    /\ results[1].row = 2
    /\ results[2].row = 1
    /\ results[1].ok # results[2].ok

----------------------------------------------------------------------------
(* C5 *)

\* the step records a failed outcome
RecordsFailure ==
    /\ Len(results') = Len(results) + 1
    /\ ~LastOf(results').ok

\* C5: an error raised at any step of a row is caught at that row's
\* boundary and recorded as a failed outcome of that row only.  The step
\* that records it leaves the earlier outcomes and every other worker's
\* position and row untouched, keeps the run going, and the worker whose
\* row failed claims the next row if one is left; a run only ends with an
\* outcome for every row.
C5_ErrorsAreRowLocal ==
    [][ /\ RecordsFailure =>
           \E w \in WorkerSet :
             /\ Busy(w)
             /\ LastOf(results').row = rowIdx[w] + 1
             /\ SubSeq(results', 1, Len(results)) = results
             /\ \A v \in WorkerSet \ {w} :
                  /\ pc'[v] = pc[v]
                  /\ phase'[v] = phase[v]
                  /\ rowIdx'[v] = rowIdx[v]
             /\ runPc' = "running"
             /\ IF index < Len(rows)
                THEN /\ pc'[w] # "exit"
                     /\ rowIdx'[w] = index
                     /\ index' = index + 1
                ELSE /\ pc'[w] = "exit"
                     /\ index' = index
        /\ runPc' = "done" => Len(results') = Len(rows')
      ]_vars

\* a single worker recorded a failure and then a success for the next row
C5_Witness ==
    /\ Cardinality(WorkerSet) = 1
    /\ Len(results) = 2
    /\ ~results[1].ok
    /\ results[2].ok

----------------------------------------------------------------------------
(* C6 *)

\* the workers whose request waits for its own token exchange
Exchanging == {w \in WorkerSet : phase[w] = "token"}

\* C6: with client credentials and no valid cached token, concurrent
\* requests do not each start their own token exchange: at most one token
\* exchange is in flight at a time.
C6_SingleTokenExchangeInFlight ==
    (~staticToken /\ keyPair) => Cardinality(Exchanging) <= 1

----------------------------------------------------------------------------
(* C7 *)

\* C7: with --dry-run no POST /bookings is ever sent for any row: no row
\* has one counted, no worker awaits one, no outcome is 'created'; and a
\* row that succeeds has the outcome 'dry-run'.  Without --dry-run a row
\* that succeeds was created by a POST.
C7_DryRunNeverPosts ==
    /\ dryRun =>
         /\ \A i \in RowSet : posts[i] = 0
         /\ \A w \in WorkerSet : pc[w] \notin PostRequests
         /\ \A k \in 1..Len(results) :
              results[k].ok => results[k].status = "dry-run"
    /\ ~dryRun =>
         \A k \in 1..Len(results) :
            results[k].ok =>
               /\ results[k].status = "created"
               /\ posts[results[k].row] >= 1

\* a dry run in which every row of a full input resolved
C7_Witness ==
    /\ dryRun
    /\ runPc = "done"
    /\ Len(results) = MaxRows
    /\ \A k \in 1..Len(results) : results[k].status = "dry-run"

----------------------------------------------------------------------------
(* C8 *)

\* C8: with --dry-run the failure log is never created or written, also
\* when rows fail.
C8_DryRunLeavesLogAlone ==
    dryRun => logFile = logFileAtStart

----------------------------------------------------------------------------
(* C9 *)

HeaderCount(ls) == Cardinality({j \in 1..Len(ls) : ls[j].kind = "header"})

\* C9 as claimed: the header is written by the first failure of the run
\* and never by a later one.
C9_HeaderOnlyByFirstFailure ==
    [][ headerWrites' > headerWrites => Len(Failed) = 0 ]_vars

\* C9, amended: the header is written at most once per run, by the first
\* failure whose initialisation of the log completes (a failure whose log
\* write raised before that leaves it to the next one), and only if the
\* file is absent or does not start with 'Row,Email Address'; it is then the
\* first line of the file and all that was in the file follows it.  After
\* the log is initialised no failure writes it again, the file starts with
\* 'Row,Email Address', and the file holds no header beyond those it had
\* plus the one written: concurrent failures neither duplicate nor drop it.
C9_HeaderWrittenOnce ==
    /\ [](headerWrites <= 1)
    /\ [](HeaderCount(logFile.lines)
            = HeaderCount(logFileAtStart.lines) + headerWrites)
    /\ [](logInitialized =>
            /\ logFile.exists
            /\ StartsWithRowEmail(logFile.lines)
            /\ headerWrites = 1 <=>
                 (~logFileAtStart.exists
                    \/ ~StartsWithRowEmail(logFileAtStart.lines)))
    /\ [](headerWrites = 1 =>
            /\ logInitialized
            /\ logFile.lines[1] = HeaderLine
            /\ SubSeq(logFile.lines, 2, 1 + Len(logFileAtStart.lines))
                 = logFileAtStart.lines)
    /\ [][ /\ headerWrites' > headerWrites =>
              /\ RecordsFailure
              /\ ~logInitialized
              /\ logInitialized'
              /\ ~logFile.exists \/ ~StartsWithRowEmail(logFile.lines)
           /\ logInitialized => logInitialized' /\ headerWrites' = headerWrites
        ]_vars

\* two workers failed, after which a file that held other text starts with
\* the one header written
C9_Witness ==
    /\ Cardinality(WorkerSet) = 2
    /\ Len(Failed) = 2
    /\ logFileAtStart = File(<<ForeignLine>>)
    /\ headerWrites = 1
    /\ Len(logFile.lines) = 4

----------------------------------------------------------------------------
(* C10 *)

\* the columns the log line of a row shows
ExpectedCols(r) ==
    <<r.email, r.building, r.floor, r.space, r.type, r.date,
      IF r.start = <<>> THEN DefaultStart ELSE r.start,
      IF r.end = <<>> THEN DefaultEnd ELSE r.end>>

\* the lines this run appended after what it found and the header
Appended ==
    SubSeq(logFile.lines,
           Len(logFileAtStart.lines) + headerWrites + 1,
           Len(logFile.lines))

\* C10: without --dry-run and with no log write raising, the lines the run
\* has appended to the log are, in order, one complete line per failed
\* outcome: its row number, the columns of that row with Start Time and
\* End Time replaced by 09:00 and 17:00 when empty, and its error message.
\* Successful rows append nothing, so the number of lines appended is the
\* number of failed outcomes.
C10_OneLogLinePerFailure ==
    (~dryRun /\ ~logWriteFailed) =>
        /\ Len(Appended) = Len(Failed)
        /\ \A j \in 1..Len(Failed) :
             /\ Appended[j].kind = "data"
             /\ Appended[j].row = Failed[j].row
             /\ Appended[j].row \in RowSet
             /\ Appended[j].cols = ExpectedCols(rows[Failed[j].row])
             /\ Appended[j].error = Failed[j].error

\* a run without --dry-run on two workers logged two failed rows, the second
\* row first, one line with the default start time and one without
C10_Witness ==
    /\ ~dryRun
    /\ ~logWriteFailed
    /\ runPc = "done"
    /\ Cardinality(WorkerSet) = 2
    /\ Len(Failed) = 2
    /\ Len(Appended) = 2
    /\ Appended[1].row = 2
    /\ \E j \in 1..2 : Appended[j].cols[7] = DefaultStart
    /\ \E j \in 1..2 : Appended[j].cols[7] # DefaultStart

----------------------------------------------------------------------------
(* C11 *)

\* the workers that hold row i
Holding(i) == {w \in WorkerSet : Busy(w) /\ rowIdx[w] + 1 = i}

\* no request of any kind was made for row i, and none is awaited
NothingSentFor(i) ==
    /\ sent[i] = {}
    /\ posts[i] = 0
    /\ attempts[i] = <<>>
    /\ \A w \in Holding(i) : pc[w] \notin Requests /\ phase[w] = "threw"

\* one of the columns the error message of line 648 lists is empty or absent
LacksRequired(r) ==
    \/ \E c \in {"email", "building", "floor", "space", "type"} : r[c] = ""
    \/ r.date = <<>>

\* C11: a row in which a required column is absent or empty fails with the
\* missing-columns error before any network call is made for it: no lookup
\* request, no booking request and no token exchange is sent on its behalf,
\* every outcome recorded for it is that failure, and the run does not end
\* without it.
C11_MissingColumnsFailBeforeNetwork ==
    \A i \in RowSet :
       LacksRequired(rows[i]) =>
          /\ NothingSentFor(i)
          /\ \A k \in OutcomesOf(i) :
               /\ ~results[k].ok
               /\ results[k].error.msg = "CSV row missing required columns"
               /\ results[k].error.at = "validate"
          /\ runPc = "done" => Recorded(i)

\* with client credentials, the row without an email address has failed
\* untouched while the other row went through a token exchange and requests
C11_Witness ==
    /\ runPc = "done"
    /\ ~staticToken /\ keyPair
    /\ Len(rows) = 2
    /\ rows[1].email = ""
    /\ OutcomesOf(1) # {}
    /\ sent[1] = {}
    /\ sent[2] = {"token", "api"}

----------------------------------------------------------------------------
(* C12 *)

\* four digits, dash, two digits, dash, two digits
LooksLikeYmd(s) ==
    /\ Len(s) = 10
    /\ \A i \in 1..10 : IF i \in {5, 8} THEN s[i] = "-" ELSE s[i] \in Digits

DateFormatMessage == "Invalid date format for row. Expected YYYY-MM-DD, got: "

\* C12: a row with all required columns whose Date, trimmed, is not
\* YYYY-MM-DD fails with the format error, which quotes the Date value of
\* the row, before any network call is made for it; a row whose trimmed
\* Date has the format never gets that error.
C12_BadDateFailsBeforeNetwork ==
    \A i \in RowSet :
       /\ (~LacksRequired(rows[i]) /\ ~LooksLikeYmd(Trim(rows[i].date))) =>
             /\ NothingSentFor(i)
             /\ \A k \in OutcomesOf(i) :
                  /\ ~results[k].ok
                  /\ results[k].error.msg = DateFormatMessage
                  /\ results[k].error.got = rows[i].date
                  /\ results[k].error.at = "validate"
             /\ runPc = "done" => Recorded(i)
       /\ LooksLikeYmd(Trim(rows[i].date)) =>
             \A k \in OutcomesOf(i) : results[k].error.msg # DateFormatMessage

\* the row dated 2025-8-1 has failed, its message quoting that value
C12_Witness ==
    /\ runPc = "done"
    /\ rows = <<RowBadDate>>
    /\ Len(results) = 1
    /\ results[1].error.msg = DateFormatMessage
    /\ results[1].error.got = <<"2", "0", "2", "5", "-", "8", "-", "1">>
    /\ sent[1] = {}

----------------------------------------------------------------------------
(* C13 *)

\* C13: Space Type is optional: a row with email, building, floor and space
\* names and a valid date, and an empty Space Type, passes validation and
\* goes on to resolution: it is not failed by the validation.
C13_SpaceTypeIsOptional ==
    \A k \in 1..Len(results) :
       LET r == rows[results[k].row]
       IN  (/\ r.type = ""
            /\ r.email # "" /\ r.building # "" /\ r.floor # "" /\ r.space # ""
            /\ LooksLikeYmd(Trim(r.date)))
              => results[k].error.at # "validate"

----------------------------------------------------------------------------
(* C14 *)

\* C14: without credentials (no static token, no key pair) the run aborts
\* at startup, before any row is processed: no row is claimed by a worker
\* and no outcome is recorded.
C14_NoCredentialsAbortsAtStartup ==
    (~staticToken /\ ~keyPair) =>
        /\ index = 0
        /\ results = <<>>
        /\ \A i \in RowSet : started[i] = 0

----------------------------------------------------------------------------
(* C15 *)

\* C15: the exit code stays 0 until the run ends, and is then 1 exactly
\* when the input file does not exist, reading it failed (the uncaught
\* top-level error) or some row has a failed outcome, and 0 otherwise: when
\* every row succeeded, and when the input has no rows, in which case no
\* row was processed and nothing was sent.  Without the file no row is
\* processed either.
C15_ExitCodeReflectsFailures ==
    /\ exitCode \in {0, 1}
    /\ runPc # "done" => exitCode = 0
    /\ runPc = "done" =>
         /\ exitCode = 1 <=>
              \/ inputFile = "missing"
              \/ inputFile = "unreadable"
              \/ \E k \in 1..Len(results) : ~results[k].ok
         /\ (\A i \in RowSet : \E k \in OutcomesOf(i) :
                results[k].status \in {"created", "dry-run"})
              /\ inputFile = "rows" => exitCode = 0
    /\ (inputFile # "rows" \/ Len(rows) = 0) =>
         /\ index = 0
         /\ results = <<>>
         /\ WorkerSet = {}

\* a run of two rows ended with exit code 1 for the one row that failed
C15_Witness ==
    /\ runPc = "done"
    /\ exitCode = 1
    /\ Len(results) = 2
    /\ Cardinality({k \in 1..2 : results[k].ok}) = 1

----------------------------------------------------------------------------
(* C16 *)

\* the rows whose pipeline ended in 'created' or 'dry-run'
Succeeded ==
    {i \in RowSet : \E k \in OutcomesOf(i) :
        results[k].status \in {"created", "dry-run"}}
\* the rows whose pipeline raised an error
Raised == {i \in RowSet : \E k \in OutcomesOf(i) : results[k].error # NoError}

\* C16: the summary is printed only at the end of a run that had rows, and
\* then Success plus Failed is the number of input rows, Success is the
\* number of rows that ended in 'created' or 'dry-run' and Failed the
\* number of rows whose pipeline raised an error, whatever the pool size.
C16_SummaryCountsAddUp ==
    /\ summary.printed <=> (runPc = "done" /\ inputFile = "rows" /\ Len(rows) > 0)
    /\ summary.printed =>
         /\ summary.success + summary.failed = Len(rows)
         /\ summary.success = Cardinality(Succeeded)
         /\ summary.failed = Cardinality(Raised)

\* a pool of two workers reported Success: 1, Failed: 1
C16_Witness ==
    /\ summary.printed
    /\ Cardinality(WorkerSet) = 2
    /\ summary.success = 1
    /\ summary.failed = 1

----------------------------------------------------------------------------
(* C17 *)

\* the step ends what worker w awaited
Resumed(w) == pc'[w] # pc[w] \/ rowIdx'[w] # rowIdx[w]

\* the step is the failure of request p of worker w
FailedAt(w, p) ==
    /\ pc[w] = p
    /\ phase[w] \in {"token", "http"}
    /\ Resumed(w)
    /\ faults' > faults

\* C17: createBooking tries the flat userId/spaceId body first and the
\* user/space references only after the first attempt failed, and returns
\* the response of the first attempt that succeeded: a row is reported
\* created with the id of the booking of its last attempt, the second
\* attempt is made in the step in which the first one fails, and a row whose
\* first attempt was accepted makes no second one.
C17_PrimaryThenSecondary ==
    /\ [](\A i \in RowSet :
            /\ attempts[i] \in {<<>>, <<"userId/spaceId">>,
                                <<"userId/spaceId", "user/space">>}
            /\ \A k \in OutcomesOf(i) :
                 results[k].status = "created" =>
                    /\ attempts[i] # <<>>
                    /\ results[k].id = <<"booking", LastOf(attempts[i])>>)
    /\ [][ \A w \in WorkerSet :
             /\ (Busy(w) /\ Len(attempts'[rowIdx[w] + 1]) = 2
                   /\ Len(attempts[rowIdx[w] + 1]) = 1)
                  => FailedAt(w, "post_primary")
             /\ FailedAt(w, "post_primary") => pc'[w] = "post_secondary"
             /\ (pc[w] = "post_primary" /\ phase[w] = "http"
                   /\ Resumed(w) /\ faults' = faults)
                  => /\ LastOf(results').status = "created"
                     /\ LastOf(results').row = rowIdx[w] + 1
                     /\ attempts'[rowIdx[w] + 1] = <<"userId/spaceId">>
         ]_vars

\* a row was created by the second attempt, after the first was rejected
C17_Witness ==
    \E k \in 1..Len(results) :
       /\ results[k].status = "created"
       /\ results[k].id = <<"booking", "user/space">>
       /\ attempts[results[k].row] = <<"userId/spaceId", "user/space">>

----------------------------------------------------------------------------
(* C18 *)

\* C18: when both attempts of createBooking fail, the error raised is the
\* one of the last, the second, attempt: the row ends as a failed outcome
\* that carries the second attempt's error, recorded in the step in which
\* that attempt fails, and no outcome carries the error of a first attempt.
C18_LastAttemptErrorReported ==
    /\ [](\A k \in 1..Len(results) :
            results[k].error.at \in PostRequests =>
               /\ ~results[k].ok
               /\ results[k].error.at = "post_secondary"
               /\ Len(attempts[results[k].row]) = 2)
    /\ [][ \A w \in WorkerSet :
             FailedAt(w, "post_secondary") =>
                /\ Len(results') = Len(results) + 1
                /\ LastOf(results').row = rowIdx[w] + 1
                /\ ~LastOf(results').ok
                /\ LastOf(results').error.at = "post_secondary"
                /\ LastOf(results').error.msg \in
                     {"HTTP error", "token request failed",
                      "Failed to obtain access token from Kadence."}
         ]_vars

\* a row failed with the error of its second attempt
C18_Witness ==
    \E k \in 1..Len(results) :
       /\ ~results[k].ok
       /\ results[k].error.at = "post_secondary"
       /\ attempts[results[k].row] = <<"userId/spaceId", "user/space">>

----------------------------------------------------------------------------
(* C19 *)

\* the step makes worker w start a request
Starts(w) ==
    /\ pc'[w] \in Requests
    /\ w \in DOMAIN pc => Resumed(w)

\* the step is the arrival of the token worker w's request waited for
Exchanged(w) ==
    /\ w \in DOMAIN pc
    /\ phase[w] = "token"
    /\ phase'[w] = "http"
    /\ ~Resumed(w)

\* a token is cached and it is more than 30 seconds before its expiry
Fresh == cachedToken # NoToken /\ tokenExpiresAtMs - now > 30000

\* C19: with client credentials a request is sent at once, with the cached
\* token and without a token exchange, when a token is cached and it is
\* more than 30 seconds before its recorded expiry; otherwise (no token, or
\* within 30 seconds of the expiry or past it) the request first waits for
\* a token exchange.  When the exchange succeeds, the token of the response
\* and the expiry, the time at the start of the call plus expires_in (3600 s
\* when the response gives none), replace the cached ones and the request
\* goes out with the new token.
C19_TokenRefreshedWithinMargin ==
    [][ \A w \in DOMAIN pc' :
          /\ Starts(w) =>
               IF Fresh
               THEN /\ phase'[w] = "http"
                    /\ bearer'[w] = cachedToken
                    /\ cachedToken' = cachedToken
                    /\ tokenExpiresAtMs' = tokenExpiresAtMs
               ELSE /\ phase'[w] = "token"
                    /\ bearer'[w] = NoToken
                    /\ tokenNow'[w] = now
          /\ Exchanged(w) =>
               /\ tokenResp'.access_token # NoToken
               /\ cachedToken' = tokenResp'.access_token
               /\ tokenExpiresAtMs' =
                    tokenNow[w] + 1000 * (IF tokenResp'.expires_in = 0 THEN 3600
                                          ELSE tokenResp'.expires_in)
               /\ bearer'[w] = tokenResp'.access_token
      ]_vars

\* a request went out with a token that replaced an earlier one; it was
\* asked for before the clock moved and expires an hour after that moment
C19_Witness ==
    \E w \in WorkerSet :
       /\ phase[w] = "http"
       /\ bearer[w] = cachedToken
       /\ tokenNow[w] > 0
       /\ cachedToken.iat > tokenNow[w]
       /\ tokenExpiresAtMs = tokenNow[w] + 3600000

----------------------------------------------------------------------------
(* C20 *)

\* C20: with a static bearer token, also when a key pair is configured as
\* well, every request that is awaited was sent at once with that token, no
\* request ever waits for a token exchange or fails for want of
\* credentials, nothing but API requests went on the wire for any row, and
\* no token was ever received or cached.
C20_StaticTokenNeverExchanges ==
    staticToken =>
        /\ \A w \in WorkerSet :
             /\ phase[w] \notin {"token", "noauth"}
             /\ pc[w] \in Requests =>
                  phase[w] = "http" /\ bearer[w] = StaticToken
        /\ \A i \in RowSet : sent[i] \subseteq {"api"}
        /\ cachedToken = NoToken
        /\ tokenResp = NoResponse

\* with a static token and a key pair, both rows were created
C20_Witness ==
    /\ staticToken
    /\ keyPair
    /\ runPc = "done"
    /\ Len(results) = 2
    /\ \A k \in 1..2 : results[k].status = "created"
    /\ \A i \in RowSet : sent[i] = {"api"}

----------------------------------------------------------------------------
(* Notions the properties of the functions share *)

Finders ==
    {"findBuildingByName", "findFloorByName", "findUserByEmail",
     "findSpaceByName"}

\* the call of f has come to its end
Settled(f) == call.fn = f /\ ret.kind \in {"returned", "threw"}

\* a text without the blanks around it
NonBlanks(s) == {i \in 1..Len(s) : s[i] # " "}
Core(s) ==
    IF NonBlanks(s) = {} THEN <<>>
    ELSE SubSeq(s, CHOOSE i \in NonBlanks(s) : \A j \in NonBlanks(s) : i <= j,
                   CHOOSE i \in NonBlanks(s) : \A j \in NonBlanks(s) : j <= i)

\* the same letter, in either case
SameLetter(c, d) == c = d \/ {c, d} = {"a", "A"} \/ {c, d} = {"b", "B"}
SameButCase(a, b) ==
    Len(a) = Len(b) /\ \A i \in 1..Len(a) : SameLetter(a[i], b[i])
SameButCaseAndBlanks(a, b) == SameButCase(Core(a), Core(b))

\* the fields of an entity that the value of the row is compared with
NamesOf(e) ==
    CASE call.fn = "findUserByEmail" -> {e.email, e.primaryEmail}
      [] call.fn = "findSpaceByName" -> {e.name, e.displayName}
      [] OTHER -> {e.name}

\* the i-th entity of the collection has the name looked for
NameMatch(i) ==
    \E n \in NamesOf(call.items[i]) : SameButCaseAndBlanks(n, call.name)

\* the first of the positions S of the collection; 0 if there is none
FirstOf(S) ==
    IF \E i \in S : TRUE
    THEN CHOOSE i \in S : \A j \in 1..(i - 1) : j \notin S
    ELSE 0

\* the positions of the entities that have the name looked for
NameMatches == {i \in 1..Len(call.items) : NameMatch(i)}

\* the call returned the i-th entity, or threw message m if i is 0
Gave(i, m) ==
    IF i = 0 THEN ret.kind = "threw" /\ ret.msg = m
    ELSE ret.kind = "returned" /\ ret.value = i

NotFoundMessage ==
    CASE call.fn = "findBuildingByName" -> "Building not found"
      [] call.fn = "findFloorByName" -> "Floor not found"
      [] call.fn = "findUserByEmail" -> "User not found by email"
      [] call.fn = "findSpaceByName" -> "Space not found"

----------------------------------------------------------------------------
(* C21 *)

\* C21: the search of a fetched collection of buildings, floors, users or
\* spaces only ever returns an entity whose name (for a space also its
\* display name, for a user also its primary email) differs from the value
\* of the row in nothing but letter case and the blanks around it, and
\* (for a space: when no type is asked for) it returns the first such
\* entity whenever the collection holds one, and throws the not-found error
\* only when it holds none.
C21_NamesMatchUpToCaseAndBlanks ==
    \A f \in Finders :
        Settled(f) =>
            /\ ret.kind = "returned" => NameMatch(ret.value)
            /\ (f = "findSpaceByName" => call.type = <<>>) =>
                  Gave(FirstOf(NameMatches), NotFoundMessage)

\* a user found by a primary email that is written in another case and
\* padded, after a first user that does not match
C21_Witness ==
    /\ Settled("findUserByEmail")
    /\ ret.kind = "returned"
    /\ ret.value = 2
    /\ call.name = <<" ", "a">>
    /\ call.items[1] = User(<<"a", "b">>, <<" ", "B">>)
    /\ call.items[2] = User(<<>>, <<"A", " ">>)

----------------------------------------------------------------------------
(* C22 *)

\* H:mm or HH:mm
MatchesHmm(s) ==
    /\ Len(s) \in {4, 5}
    /\ s[Len(s) - 2] = ":"
    /\ \A i \in (1..Len(s)) \ {Len(s) - 2} : s[i] \in Digits

\* the window of a call that uses the start time s and the end time e
WindowOf(s, e) ==
    /\ ret.kind = "returned"
    /\ ret.value.startUtc = LocalToUtc(Core(call.date), s, call.tz)
    /\ ret.value.endUtc = LocalToUtc(Core(call.date), e, call.tz)

\* C22 as it is stated: a start or end time that does not match H:mm or
\* HH:mm is replaced by its default, one that matches is used as given.
C22_TimesDefaultUnlessHmm ==
    Settled("computeUtcRangeForDateAndTimes") =>
        WindowOf(IF MatchesHmm(call.start) THEN call.start ELSE DefaultStart,
                 IF MatchesHmm(call.end) THEN call.end ELSE DefaultEnd)

\* C22, amended: the start time and the end time are handled independently;
\* each is first stripped of the blanks around it, and what is left is used
\* if it matches H:mm or HH:mm and replaced by its default (09:00 for the
\* start, 17:00 for the end) if it does not; the computation never throws.
C22_TimesDefaultIndependently ==
    Settled("computeUtcRangeForDateAndTimes") =>
        WindowOf(IF MatchesHmm(Core(call.start)) THEN Core(call.start)
                 ELSE DefaultStart,
                 IF MatchesHmm(Core(call.end)) THEN Core(call.end)
                 ELSE DefaultEnd)

\* '9am' to '9:00' in London: the window is 09:00 to 09:00 local time
C22_Witness ==
    /\ Settled("computeUtcRangeForDateAndTimes")
    /\ call.start = <<"9", "a", "m">>
    /\ call.end = <<"9", ":", "0", "0">>
    /\ call.tz = "Europe/London"
    /\ ret.value.startUtc.minute = 480
    /\ ret.value.endUtc.minute = 480

----------------------------------------------------------------------------
(* C25 *)

\* the spaces with the name looked for that have no type field, or the type
\* asked for but for letter case
EligibleUpToCase ==
    {i \in NameMatches :
        \/ TypeOf(call.items[i]) = <<>>
        \/ SameButCase(TypeOf(call.items[i]), call.type)}

\* the spaces with the name looked for whose type field is absent, empty
\* or blank, or the type asked for but for letter case and blanks around
EligibleUpToCaseAndBlanks ==
    {i \in NameMatches :
        \/ Core(TypeOf(call.items[i])) = <<>>
        \/ SameButCaseAndBlanks(TypeOf(call.items[i]), call.type)}

\* C25 as it is stated: with a type filter, a space with the name looked for
\* is eligible iff its type field equals the filter but for letter case, or
\* it has no type field; the first eligible space is returned, the
\* not-found error is thrown when there is none.
C25_TypeFilterUpToCase ==
    Settled("findSpaceByName") /\ call.type # <<>> =>
        Gave(FirstOf(EligibleUpToCase), "Space not found")

\* C25, amended: with a type filter that is not blank, a space with the
\* name looked for is eligible iff its type field (the first non-empty of
\* type, spaceType, kind, category) equals the filter but for letter case
\* and the blanks around either, or that field is absent, empty or blank;
\* a space of another type is never returned, the first eligible space in
\* collection order is, and the not-found error is thrown when there is
\* none.
C25_TypeFilterUpToCaseAndBlanks ==
    Settled("findSpaceByName") /\ Core(call.type) # <<>> =>
        Gave(FirstOf(EligibleUpToCaseAndBlanks), "Space not found")

\* asked for type 'a': the first space has the name and type 'b', the
\* second has the name and no type and is returned
C25_Witness ==
    /\ Settled("findSpaceByName")
    /\ ret.kind = "returned"
    /\ ret.value = 2
    /\ call.name = <<"a">>
    /\ call.type = <<"a">>
    /\ call.items[1] = Space(<<"a">>, <<>>, <<"b">>, <<>>, <<>>, <<>>)
    /\ call.items[2] = Space(<<"a">>, <<>>, <<>>, <<>>, <<>>, <<>>)

----------------------------------------------------------------------------
(* C26 *)

\* the first of the four time zone fields that is set, "" if none is
ZoneField(b) ==
    IF b.timezone # "" THEN b.timezone
    ELSE IF b.timeZone # "" THEN b.timeZone
    ELSE IF b.tz # "" THEN b.tz
    ELSE b.time_zone

\* C26: ensureBuildingTimezone never throws.  It asks for the building
\* detail iff none of the building's time zone fields is set or the first
\* that is set is 'UTC', and the building has an id; it asks at most once.
\* Without that request its value is the first field that is set, or 'UTC'
\* if there is none; after the request its value is the first time zone
\* field of the detail that is set, and 'UTC' if the request failed or the
\* detail has none.
C26_TimezoneFallsBackToUtc ==
    call.fn = "ensureBuildingTimezone" /\ ret.kind # "pending" =>
        LET own == ZoneField(call.building)
        IN  /\ ret.kind \in {"awaiting", "returned"}
            /\ ret.fetches \in {0, 1}
            /\ ret.fetches = 1 <=>
                 own \in {"", "UTC"} /\ call.building.id # ""
            /\ ret.kind = "returned" /\ ret.fetches = 0 =>
                 ret.value = IF own = "" THEN "UTC" ELSE own
            /\ ret.kind = "returned" /\ ret.fetches = 1 =>
                 ret.value = IF ret.detail.state = "failed"
                                \/ ZoneField(ret.detail.data) = ""
                             THEN "UTC"
                             ELSE ZoneField(ret.detail.data)

\* a building that says 'UTC' in its third field: the detail was asked for
\* once, the request failed, the value is 'UTC'
C26_Witness ==
    /\ call.fn = "ensureBuildingTimezone"
    /\ call.building = Building("b1", "", "", "UTC", "")
    /\ ret.kind = "returned"
    /\ ret.fetches = 1
    /\ ret.detail.state = "failed"
    /\ ret.value = "UTC"

----------------------------------------------------------------------------
(* C27 *)

\* the final path segment of a self-reference, taken before any query
\* string; <<>> if it has none
FinalSegment(iri) ==
    LET parts == Segments(BeforeQuery(iri), <<>>)
    IN  IF Len(parts) = 0 THEN <<>> ELSE parts[Len(parts)]

\* C27: the id of an entity is the first non-empty of its id, the final path
\* segment of its self-reference before any query string, its identifier
\* and its uuid, and undefined when all four are empty.
C27_FirstNonEmptySource ==
    Settled("getEntityId") =>
        LET e == call.entity
        IN  ret.value = IF e.id # <<>> THEN e.id
                        ELSE IF FinalSegment(e.iri) # <<>>
                        THEN FinalSegment(e.iri)
                        ELSE IF e.identifier # <<>> THEN e.identifier
                        ELSE e.uuid

----------------------------------------------------------------------------
(* Notions the properties of the steps of a row share *)

\* the ways a request can fail
Failures == {"error", "token failed", "no credentials"}

\* the step resumes worker w and leaves it at another request of its row
GoesOn(w) ==
    /\ Busy(w)
    /\ Resumed(w)
    /\ rowIdx'[w] = rowIdx[w]
    /\ pc'[w] \in Requests

\* the step resumes worker w and ends its row
Ended(w) == Busy(w) /\ (rowIdx'[w] # rowIdx[w] \/ pc'[w] = "exit")

\* the outcome the step records
Outcome1 == LastOf(results')

\* the steps of a row, in the order of processRow
StepOf(p) ==
    CASE p = "validate" -> 0
      [] p \in UserRequests -> 1
      [] p = "buildings" -> 2
      [] p \in FloorRequests -> 3
      [] p \in SpaceRequests -> 4
      [] p = "building_detail" -> 5
      [] p \in PostRequests -> 6

\* the second requests: each is made only when the first of its step failed
Fallbacks ==
    {<<"users_q", "users_all">>, <<"floors_q", "floors_path">>,
     <<"spaces_q", "spaces_path">>, <<"post_primary", "post_secondary">>}

TokenMessages ==
    {"token request failed", "Failed to obtain access token from Kadence."}

RequestMessages ==
    TokenMessages \cup {"HTTP error", "Missing Kadence credentials"}

NotFoundAt(p) ==
    CASE p \in UserRequests -> "User not found by email"
      [] p = "buildings" -> "Building not found"
      [] p \in FloorRequests -> "Floor not found"
      [] p \in SpaceRequests -> "Space not found"
      [] OTHER -> "-"

\* the messages a row can fail with while it awaits p
MessagesAt(p) ==
    CASE p = "validate" ->
           {"CSV row missing required columns",
            "Invalid date format for row. Expected YYYY-MM-DD, got: "}
      [] p \in {"users_q", "floors_q", "spaces_q"} -> {NotFoundAt(p)}
      [] p \in {"users_all", "buildings"} ->
           {NotFoundAt(p)} \cup RequestMessages
      [] p = "floors_path" ->
           {NotFoundAt(p), "Unable to list floors for building"}
      [] p = "spaces_path" ->
           {NotFoundAt(p), "Unable to list spaces for floor"}
      [] p = "post_secondary" -> RequestMessages
      [] OTHER -> {}

----------------------------------------------------------------------------
(* C23 *)

\* C23: a row starts with its validation and its first request is the one
\* for the user; from a request the row goes on only to the second request
\* of the same step, when the first failed, or -- when the step has
\* succeeded -- to the first request of the next step (user, building,
\* floor, space, time zone, submission; the time zone step may need no
\* request and never fails); a successful outcome is recorded only from the
\* last step (the time zone in a dry run, the submission otherwise); a
\* failure is recorded by the step that failed, with a message of that
\* step, and after its outcome a row is held by no worker and gets no
\* second outcome.
C23_StepsInOrder ==
    /\ [](\A i \in RowSet :
            Recorded(i) =>
                Holding(i) = {} /\ Cardinality(OutcomesOf(i)) = 1)
    /\ [][\A w \in DOMAIN pc' :
            /\ (w \notin DOMAIN pc \/ rowIdx'[w] # rowIdx[w]) =>
                 /\ pc'[w] \in {"validate", "users_q", "exit"}
                 /\ pc'[w] # "exit" =>
                      (pc'[w] = "validate" <=>
                          ValidationError(rows[rowIdx'[w] + 1]) # NoError)
            /\ w \in DOMAIN pc /\ GoesOn(w) =>
                 \/ /\ <<pc[w], pc'[w]>> \in Fallbacks
                    /\ heard'[w] \in Failures
                 \/ /\ StepOf(pc'[w]) = StepOf(pc[w]) + 1
                    /\ <<pc[w], pc'[w]>> \notin Fallbacks
                    /\ pc'[w] \notin {b[2] : b \in Fallbacks}
                    /\ heard'[w] = "found"
                 \/ /\ pc[w] \in SpaceRequests
                    /\ pc'[w] = "post_primary"
                    /\ heard'[w] = "found"
                 \/ /\ pc[w] = "building_detail"
                    /\ pc'[w] = "post_primary"
            /\ w \in DOMAIN pc /\ Ended(w) =>
                 /\ results' = Append(results, Outcome1)
                 /\ Outcome1.row = rowIdx[w] + 1
                 /\ IF Outcome1.ok
                    THEN IF dryRun
                         THEN /\ Outcome1.status = "dry-run"
                              /\ StepOf(pc[w]) \in {4, 5}
                         ELSE /\ Outcome1.status = "created"
                              /\ StepOf(pc[w]) = 6
                    ELSE /\ Outcome1.error.at = pc[w]
                         /\ Outcome1.error.msg \in MessagesAt(pc[w])
      ]_vars

\* a row that got as far as its floor and failed there, on the listing by
\* path, while the other row was created
C23_Witness ==
    /\ runPc = "done"
    /\ Len(results) = 2
    /\ \E k \in 1..2 :
         /\ results[k].error.at = "floors_path"
         /\ results[k].error.msg = "Floor not found"
         /\ results[3 - k].status = "created"

----------------------------------------------------------------------------
(* C24 *)

\* the two listings: the filtered request, the request by path, the error
\* raised when both failed and the parent ids it can name
Listings ==
    {[q |-> "floors_q", path |-> "floors_path",
      msg |-> "Unable to list floors for building",
      parents |-> {"b1", "undefined"}],
     [q |-> "spaces_q", path |-> "spaces_path",
      msg |-> "Unable to list spaces for floor",
      parents |-> {"f1", "undefined"}]}

\* C24: the listing by path of floors, and of spaces, is requested only
\* from the filtered listing of the same row and only when that request
\* failed; the error of a listing is raised only by the failure of the
\* listing by path, so after both requests failed, and its message names the
\* parent id of the listing and the message of the second failure.
C24_PathListingOnlyAfterFailure ==
    [][\A w \in WorkerSet : \A l \in Listings :
          /\ Resumed(w) /\ pc'[w] = l.path =>
               /\ pc[w] = l.q
               /\ rowIdx'[w] = rowIdx[w]
               /\ heard'[w] \in Failures
          /\ Ended(w) /\ Outcome1.error.msg = l.msg =>
               /\ pc[w] = l.path
               /\ heard[w] \in Failures
               /\ faults' > faults
               /\ Outcome1.error.parent \in l.parents
               /\ Outcome1.error.cause \in RequestMessages
      ]_vars

\* both listings of the floors of building b1 failed
C24_Witness ==
    \E k \in 1..Len(results) :
        /\ results[k].error.msg = "Unable to list floors for building"
        /\ results[k].error.parent = "b1"
        /\ results[k].error.cause = "HTTP error"

----------------------------------------------------------------------------
(* C28 *)

\* C28: what follows the filtered listing of floors, or of spaces: the next
\* step, when the listing held the name; the listing by path, only when the
\* request failed; or the end of the row, and then -- unless the row is
\* done with a dry-run result -- its failure with the not-found error of
\* the filtered listing.  A listing that succeeds without the name is never
\* followed by the listing by path.
C28_FallbackOnlyOnFailure ==
    [][\A w \in WorkerSet : \A l \in Listings :
          pc[w] = l.q /\ Resumed(w) =>
              \/ /\ GoesOn(w)
                 /\ heard'[w] = "found"
                 /\ pc'[w] # l.path
              \/ /\ GoesOn(w)
                 /\ heard'[w] \in Failures
                 /\ pc'[w] = l.path
              \/ /\ Ended(w)
                 /\ \/ Outcome1.ok /\ l.q = "spaces_q"
                    \/ /\ ~Outcome1.ok
                       /\ Outcome1.error.at = l.q
                       /\ Outcome1.error.msg = NotFoundAt(l.q)
      ]_vars

\* the filtered listing of spaces answered without the name: the row failed
\* with the not-found error and one fault, the listing, was all it met
C28_Witness ==
    /\ Len(rows) = 1
    /\ Len(results) = 1
    /\ results[1].error.msg = "Space not found"
    /\ results[1].error.at = "spaces_q"
    /\ faults = 1

----------------------------------------------------------------------------
(* C29 *)

\* C29: for every row at most two POST /bookings are sent and at most one
\* is accepted; none is sent in a dry run or for a row that failed before
\* its submission; a row whose POST was accepted is held by no worker any
\* more, so nothing is sent for it afterwards; and a row is reported
\* 'created' iff exactly one POST of it was accepted.
C29_AtMostTwoPostsOneAccepted ==
    \A i \in RowSet :
        /\ posts[i] <= 2
        /\ accepted[i] <= 1
        /\ accepted[i] <= posts[i]
        /\ dryRun => posts[i] = 0
        /\ accepted[i] = 1 => Recorded(i) /\ Holding(i) = {}
        /\ \A k \in OutcomesOf(i) :
             /\ results[k].status = "created" <=> accepted[i] = 1
             /\ ~results[k].ok /\ results[k].error.at \notin PostRequests =>
                  posts[i] = 0

\* one row created by its second POST, one row created by its first
C29_Witness ==
    /\ runPc = "done"
    /\ Len(rows) = 2
    /\ \A k \in 1..2 : results[k].status = "created"
    /\ \E i \in RowSet :
         /\ posts[i] = 2 /\ accepted[i] = 1
         /\ posts[3 - i] = 1 /\ accepted[3 - i] = 1

----------------------------------------------------------------------------
(* C30 *)

\* the step is the failure of the token exchange worker w's request waits for
TokenFailed(w) == phase[w] = "token" /\ Resumed(w)

\* the cache is as it was, and no worker but w has moved
OnlyFails(w) ==
    /\ cachedToken' = cachedToken
    /\ tokenExpiresAtMs' = tokenExpiresAtMs
    /\ \A v \in WorkerSet \ {w} :
         pc'[v] = pc[v] /\ phase'[v] = phase[v] /\ rowIdx'[v] = rowIdx[v]
    /\ Len(results') <= Len(results) + 1

\* C30 as it is stated: a failed token exchange leaves the cache alone and
\* fails the request that waited for it and thereby its row.
C30_TokenFailureFailsRow ==
    [][\A w \in WorkerSet :
          TokenFailed(w) => OnlyFails(w) /\ Ended(w) /\ ~Outcome1.ok
      ]_vars

\* C30, amended: a failed token exchange leaves the cached token and its
\* expiry unchanged and fails only the request that waited for it, no
\* other worker's.  The row of that request fails only if the request has
\* no fallback: after a filtered user, floor or space listing the second
\* request of the step is made, after the first POST the second, and after
\* the building detail the row goes on with 'UTC'.  The failure is not
\* remembered: the next request of the worker waits for a fresh exchange
\* unless a token that is not due for refresh is cached by then.
C30_TokenFailureFailsRequestOnly ==
    [][\A w \in WorkerSet :
          TokenFailed(w) =>
              /\ OnlyFails(w)
              /\ IF \E b \in Fallbacks : b[1] = pc[w]
                 THEN /\ GoesOn(w)
                      /\ <<pc[w], pc'[w]>> \in Fallbacks
                      /\ heard'[w] = "token failed"
                 ELSE IF pc[w] = "building_detail"
                 THEN IF dryRun
                      THEN Ended(w) /\ Outcome1.status = "dry-run"
                      ELSE GoesOn(w) /\ pc'[w] = "post_primary"
                 ELSE /\ Ended(w)
                      /\ ~Outcome1.ok
                      /\ Outcome1.row = rowIdx[w] + 1
                      /\ \/ Outcome1.error.msg \in TokenMessages
                         \/ Outcome1.error.cause \in TokenMessages
              /\ pc'[w] \in Requests =>
                   phase'[w] = IF Fresh THEN "http" ELSE "token"
      ]_vars

\* the exchange of the first request of a row has failed: nothing is
\* cached, no outcome is recorded, and the second request of the step waits
\* for an exchange of its own
C30_Witness ==
    \E w \in WorkerSet :
        /\ pc[w] = "users_all"
        /\ heard[w] = "token failed"
        /\ phase[w] = "token"
        /\ cachedToken = NoToken
        /\ results = <<>>

============================================================================
